---- MODULE Spec2Model ----
(***************************************************************************)
(* EdgeFinder signal-discovery pipeline (server/ai-service.ts and the      *)
(* scan route of server/routes.ts).                                        *)
(*                                                                         *)
(* Numbers.  A JavaScript value is a record [k, v]: k is its kind and v    *)
(* its payload.  Prices and probabilities of kind "num" are held exactly,  *)
(* as an integer count of 1/Scale (half a basis point), so that            *)
(* (fair - side) * 10000 can fall on a rounding tie; an aiProbability is   *)
(* held in whole percent, a volume or liquidity in whole dollars, an       *)
(* edgeBps in whole basis points.  The prices and probabilities the model  *)
(* draws are ones for which this exact arithmetic and the program's binary *)
(* floating point give the same edgeBps (0.03125 = 1/32 is a binary        *)
(* fraction: (0.5 - 0.03125) * 10000 is exactly 4687.5).                   *)
(***************************************************************************)
EXTENDS Integers, Sequences, FiniteSets, TLC

VARIABLES
    \* createSignalsFromAnalysis, applied as a function
    epc,        \* "ready" before the call, "done" after it
    markets,    \* argument: MarketData[]
    analyses,   \* argument: AIMarketAnalysis[] as JSON.parse delivered it
    signals,    \* result: InsertSignal[]
    \* POST /api/topics/:id/scan and the storage behind it (the route's
    \* markets, analyses and signalInputs are the three variables above)
    spc,            \* where the handler of the scan in flight stands
    topicId,        \* req.params.id of the scan in flight
    judge,          \* what the judge endpoint answered to this scan
    response,       \* the HTTP response of this scan
    sigRows,        \* table signals: the rows, in insertion order
    activeSignalCount,  \* table topics: activeSignalCount of each topic
    nScans,         \* scans started so far
    calls,          \* this scan's calls of the judge and of the storage
    rowsBefore,     \* sigRows and activeSignalCount when this scan began
    \* fetchMarketsForTopic
    fpc,            \* where the call stands
    topicKeywords,  \* argument: string[]
    catalog,        \* the listings the venue's catalog holds
    timer,          \* the 15 s abort timer
    upstream,       \* what the catalog endpoint did, and when
    allMarkets,     \* the parsed response
    matchingMarkets,
    sortedMarkets,
    quotes,         \* the quote request of each market to enrich
    result,         \* the value returned
    \* PATCH /api/signals/:id, POST /api/strategies/execute and their tables
    exec,           \* the execute request in flight: position, body, locals
    patch,          \* the last PATCH request and its response
    strategies,     \* table strategies
    strategySignals,    \* table strategy_signals
    nOps,           \* PATCH and execute requests started so far
    \* fetchMarketBySlug and its cache
    marketCache,    \* slug -> { data, timestamp }, or no entry
    now,            \* Date.now()
    lookup,         \* the calls of fetchMarketBySlug in flight
    nLookups,       \* calls started so far
    \* POST /api/topics/:id/subscribe and its table
    topicSubscriptions, \* table topic_subscriptions
    subReq,         \* the subscribe requests in flight
    nSubs,          \* subscribe requests started so far
    \* contract StrategyRegistry
    strategyCount,
    registryStrategies, \* mapping strategies: id j is at index j + 1
    userStrategies,
    blockTimestamp, \* block.timestamp of the block being built
    lastCall        \* the last call of recordStrategy and its outcome

edgeVars == <<epc, markets, analyses, signals>>
scanVars == <<spc, topicId, judge, response, sigRows, activeSignalCount, nScans,
              calls, rowsBefore>>
fetchVars == <<fpc, topicKeywords, catalog, timer, upstream, allMarkets,
               matchingMarkets, sortedMarkets, quotes, result>>
lifeVars == <<exec, patch, strategies, strategySignals, nOps>>
cacheVars == <<marketCache, now, lookup, nLookups>>
\* the components that no scan, PATCH or execute request touches
subVars == <<topicSubscriptions, subReq, nSubs>>
regVars == <<strategyCount, registryStrategies, userStrategies, blockTimestamp,
             lastCall>>
otherVars == <<cacheVars, subVars, regVars>>
vars == <<epc, markets, analyses, signals, spc, topicId, judge, response, sigRows,
          activeSignalCount, nScans, calls, rowsBefore, fpc, topicKeywords,
          catalog, timer, upstream, allMarkets, matchingMarkets, sortedMarkets,
          quotes, result, exec, patch, strategies, strategySignals, nOps,
          marketCache, now, lookup, nLookups, topicSubscriptions, subReq,
          nSubs, strategyCount, registryStrategies, userStrategies,
          blockTimestamp, lastCall>>

----------------------------------------------------------------------------
\* JavaScript values

Scale == 2 * 10000

Num(n) == [k |-> "num", v |-> n]
Bool(b) == [k |-> "bool", v |-> IF b THEN 1 ELSE 0]
Str(n) == [k |-> "str", v |-> n]
DateOf(n) == [k |-> "date", v |-> n]
NaN == [k |-> "nan", v |-> 0]
Undefined == [k |-> "undefined", v |-> 0]
Null == [k |-> "null", v |-> 0]

\* ToBoolean: false, 0, NaN, undefined and null are falsy (the strings and
\* dates of the model are non-empty, hence truthy).
Truthy(x) ==
    CASE x.k = "bool" -> x.v = 1
      [] x.k = "num" -> x.v # 0
      [] x.k \in {"nan", "undefined", "null"} -> FALSE
      [] OTHER -> TRUE

\* ToNumber, as the operator / applies it to its left operand.
ToNumber(x) ==
    CASE x.k = "num" -> x
      [] x.k = "null" -> Num(0)
      [] x.k = "bool" -> Num(x.v)
      [] OTHER -> NaN

\* x || null
OrNull(x) == IF Truthy(x) THEN x ELSE Null

\* a < b on numbers: every comparison with NaN is false.
LessThan(a, b) == a.k = "num" /\ b.k = "num" /\ a.v < b.v

\* Math.round of the rational n / d (d > 0): floor(n / d + 1/2), so a tie
\* goes toward +Infinity (Math.round(2.5) = 3, Math.round(-2.5) = -2).
MathRound(n, d) == (2 * n + d) \div (2 * d)

----------------------------------------------------------------------------
\* createSignalsFromAnalysis

MIN_EDGE_BPS == 300
BPS == 10000

\* analysis.aiProbability / 100, in units of 1/Scale
aiYesProb(analysis) ==
    LET n == ToNumber(analysis.aiProbability)
    IN  IF n.k = "num" THEN Num(n.v * (Scale \div 100)) ELSE NaN

isYesSide(analysis) == analysis.side = "YES"

OneMinus(x) == IF x.k = "num" THEN Num(Scale - x.v) ELSE NaN

\* The YES price whatever the side.
marketSidePrice_IgnoresSide(yes, marketYesPrice) == marketYesPrice

marketSidePrice(yes, marketYesPrice) ==
    IF yes THEN marketYesPrice ELSE OneMinus(marketYesPrice)

aiFairSidePrice(yes, yesProb) ==
    IF yes THEN yesProb ELSE OneMinus(yesProb)

\* Math.round((aiFairSidePrice - marketSidePrice) * 10000)
edgeBps(fair, side) ==
    IF fair.k = "num" /\ side.k = "num"
    THEN Num(MathRound((fair.v - side.v) * BPS, Scale))
    ELSE NaN

\* if (edgeBps < 300) continue;
belowGate(edge) == LessThan(edge, Num(MIN_EDGE_BPS))

\* markets.find(m => m.id === analysis.marketId): the index of the first
\* match, 0 when there is none
findMarket(ms, id) ==
    LET hits == {i \in 1..Len(ms) : ms[i].id = id}
    IN  IF hits = {} THEN 0 ELSE CHOOSE i \in hits : \A j \in hits : i <= j

\* market.endDate ? new Date(market.endDate) : null
endDateOf(market) ==
    IF Truthy(market.endDate) THEN DateOf(market.endDate.v) ELSE Null

\* Every opinion counts as flagged.
skipUnflagged_Never(analysis) == FALSE

\* if (!analysis.shouldTrade) continue;
skipUnflagged(analysis) == ~Truthy(analysis.shouldTrade)

\* One iteration of the loop: the signals (none or one) it pushes.
signalFor(tid, ms, analysis) ==
    IF skipUnflagged(analysis) THEN <<>>
    ELSE LET i == findMarket(ms, analysis.marketId)
         IN  IF i = 0 THEN <<>>
             ELSE LET market == ms[i]
                      yes == isYesSide(analysis)
                      side == marketSidePrice(yes, market.currentPrice)
                      fair == aiFairSidePrice(yes, aiYesProb(analysis))
                      edge == edgeBps(fair, side)
                  IN  IF belowGate(edge) THEN <<>>
                      ELSE << [topicId |-> tid,
                               marketId |-> market.id,
                               marketQuestion |-> market.question,
                               marketDescription |-> OrNull(market.description),
                               side |-> analysis.side,
                               marketPrice |-> side,
                               aiFairPrice |-> fair,
                               edgeBps |-> edge,
                               volume |-> OrNull(market.volume),
                               liquidity |-> OrNull(market.liquidity),
                               endDate |-> endDateOf(market)] >>

RECURSIVE signalsUpTo(_, _, _, _)
signalsUpTo(tid, ms, as, n) ==
    IF n = 0 THEN <<>>
    ELSE signalsUpTo(tid, ms, as, n - 1) \o signalFor(tid, ms, as[n])

createSignalsFromAnalysis(tid, ms, as) ==
    signalsUpTo(tid, ms, as, Len(as))

----------------------------------------------------------------------------
\* Inputs of createSignalsFromAnalysis

MaxMarkets == 2
MaxAnalyses == 2

TopicId == "t1"

\* A MarketData as fetchMarketsForTopic builds it; v selects the variant.
\* currentPrice is a probability in units of 1/Scale.
MarketVariants ==
    { [question |-> "q1", description |-> Str(1), currentPrice |-> Num(2000),
       volume |-> Num(500), liquidity |-> Num(40), endDate |-> Str(7)],
      [question |-> "q2", description |-> Undefined, currentPrice |-> Num(625),
       volume |-> Num(500), liquidity |-> Num(0), endDate |-> Undefined],
      [question |-> "q3", description |-> Str(2), currentPrice |-> Num(2002),
       volume |-> Undefined, liquidity |-> Undefined, endDate |-> Str(8)],
      [question |-> "q4", description |-> Str(3), currentPrice |-> Num(2600),
       volume |-> Num(0), liquidity |-> Num(15), endDate |-> Str(9)],
      [question |-> "q5", description |-> Str(4), currentPrice |-> Num(6000),
       volume |-> Num(900), liquidity |-> Num(60), endDate |-> Str(7)] }

MarketIdAt(i) == <<"m1", "m2", "m3", "m4">>[i]

WithId(m, id) ==
    [id |-> id, question |-> m.question, description |-> m.description,
     currentPrice |-> m.currentPrice, volume |-> m.volume,
     liquidity |-> m.liquidity, endDate |-> m.endDate]

\* Batches of 1..MaxMarkets candidates; the venue's ids are distinct.
MarketBatches ==
    UNION { { [i \in 1..n |-> WithId(f[i], MarketIdAt(i))] :
              f \in [1..n -> MarketVariants] } : n \in 1..MaxMarkets }

Opinion(id, p, side, st) ==
    [marketId |-> id, aiProbability |-> p, side |-> side, shouldTrade |-> st]

\* What the judge may answer for one market: the probability in percent
\* (or missing), either side (or a side written in lower case), flagged or
\* not, about a market of the batch or about one that is not ("mX").
OpinionPool ==
    { Opinion("m1", p, s, Bool(TRUE)) :
        p \in {Num(13), Num(40), Num(50), Undefined}, s \in {"YES", "NO"} }
    \cup { Opinion("m1", Num(13), "yes", Bool(TRUE)),
           Opinion("m2", Num(40), "YES", Bool(TRUE)),
           Opinion("m2", Num(13), "NO", Bool(TRUE)),
           Opinion("mX", Num(40), "YES", Bool(TRUE)),
           Opinion("m1", Num(40), "YES", Bool(FALSE)),
           Opinion("m1", Num(50), "YES", Undefined) }

AnalysisBatches ==
    UNION { [1..n -> OpinionPool] : n \in 0..MaxAnalyses }

NoResponse == [status |-> 0, message |-> "", count |-> 0]
NoJudge == [kind |-> "none", analyses |-> <<>>]
NoCalls == [fetchMarketsForTopic |-> 0, judge |-> 0, createSignals |-> 0,
            updateTopicSignalCount |-> 0]
Topics == {"t1", "t2"}

\* The scan route at rest, with empty tables.
ScanIdle ==
    /\ spc = "idle"
    /\ topicId = "none"
    /\ judge = NoJudge
    /\ response = NoResponse
    /\ sigRows = <<>>
    /\ activeSignalCount = [t \in Topics |-> 0]
    /\ nScans = 0
    /\ calls = NoCalls
    /\ rowsBefore = [rows |-> <<>>, count |-> [t \in Topics |-> 0]]

NoUpstream == [requests |-> 0, outcome |-> "none", bodyLate |-> FALSE,
               deadlinePassed |-> FALSE]

\* fetchMarketsForTopic not called.
FetchIdle ==
    /\ fpc = "unused"
    /\ topicKeywords = <<>>
    /\ catalog = <<>>
    /\ timer = "unset"
    /\ upstream = NoUpstream
    /\ allMarkets = <<>>
    /\ matchingMarkets = <<>>
    /\ sortedMarkets = <<>>
    /\ quotes = <<>>
    /\ result = <<>>

NoExec == [pc |-> "idle", topicId |-> "none", signalIds |-> <<>>, idx |-> 0,
           strategyId |-> 0, status |-> 0]
NoPatch == [id |-> 0, status |-> "none", code |-> 0]

\* No PATCH and no execute request yet; the tables of strategies are empty.
LifeIdle ==
    /\ exec = NoExec
    /\ patch = NoPatch
    /\ strategies = <<>>
    /\ strategySignals = <<>>
    /\ nOps = 0

Slugs == {"a", "b"}
CallIds == {1, 2}
NoEntry == [data |-> Null, timestamp |-> 0]
NoLookup == [pc |-> "idle", slug |-> "none", requests |-> 0, result |-> Null]

\* fetchMarketBySlug never called: new Map(), no call in flight.
CacheIdle ==
    /\ marketCache = [s \in Slugs |-> NoEntry]
    /\ now = 0
    /\ lookup = [c \in CallIds |-> NoLookup]
    /\ nLookups = 0

Users == {"u1", "u2"}
SubReqIds == {1, 2}
NoSubReq == [pc |-> "idle", userAddress |-> "none", topicId |-> "none",
             status |-> 0, body |-> Null]

\* No subscribe request yet; the table is empty.
SubIdle ==
    /\ topicSubscriptions = <<>>
    /\ subReq = [r \in SubReqIds |-> NoSubReq]
    /\ nSubs = 0

NoRecord == [reverted |-> FALSE, returned |-> 0]

\* The contract after deployment.
RegistryIdle ==
    /\ strategyCount = 0
    /\ registryStrategies = <<>>
    /\ userStrategies = [u \in Users |-> <<>>]
    /\ blockTimestamp = 1
    /\ lastCall = NoRecord

OtherIdle == CacheIdle /\ SubIdle /\ RegistryIdle

EdgeInit ==
    /\ epc = "ready"
    /\ markets \in MarketBatches
    /\ analyses \in AnalysisBatches
    /\ signals = <<>>
    /\ ScanIdle
    /\ FetchIdle
    /\ LifeIdle
    /\ OtherIdle

\* const signalInputs = createSignalsFromAnalysis(topicId, markets, analyses)
CreateSignals ==
    /\ epc = "ready"
    /\ signals' = createSignalsFromAnalysis(TopicId, markets, analyses)
    /\ epc' = "done"
    /\ UNCHANGED <<markets, analyses>>
    /\ UNCHANGED scanVars
    /\ UNCHANGED fetchVars
    /\ UNCHANGED <<lifeVars, otherVars>>

EdgeNext == CreateSignals

SpecEdge == EdgeInit /\ [][EdgeNext]_vars

----------------------------------------------------------------------------
\* Claims about createSignalsFromAnalysis (specification SpecEdge)

Emitted == {signals[i] : i \in 1..Len(signals)}
Flagged == {analyses[i] : i \in 1..Len(analyses)}
Batch == {markets[i] : i \in 1..Len(markets)}

\* The claims' own arithmetic, in units of 1/Scale.
YesProbOf(a) ==
    IF a.aiProbability.k = "num" THEN Num(a.aiProbability.v * 200) ELSE NaN
Complement(x) == IF x.k = "num" THEN Num(Scale - x.v) ELSE NaN
\* e is (fair - side) * 10000 rounded to a nearest integer, whichever way a
\* tie goes: |e - (fair - side) * 10000| <= 1/2.
IsRounded(e, fair, side) ==
    IF fair.k = "num" /\ side.k = "num"
    THEN /\ e.k = "num"
         /\ 2 * (e.v * Scale - (fair.v - side.v) * BPS) <= Scale
         /\ 2 * ((fair.v - side.v) * BPS - e.v * Scale) <= Scale
    ELSE e.k = "nan"

\* C1: every emitted signal has an integer edgeBps >= 300, and an opinion
\* that is flagged, names a candidate of the batch and has an edge of
\* exactly 300 basis points on its side yields a signal.
C1_MaterialityGate ==
    epc = "done" =>
        /\ \A s \in Emitted : s.edgeBps.k = "num" /\ s.edgeBps.v >= 300
        /\ \A a \in Flagged, m \in Batch :
              ( /\ a.shouldTrade = Bool(TRUE)
                /\ a.marketId = m.id
                /\ a.side = "YES"
                /\ YesProbOf(a).k = "num"
                /\ (YesProbOf(a).v - m.currentPrice.v) * BPS = 300 * Scale )
              => \E s \in Emitted :
                    s.marketId = m.id /\ s.side = "YES" /\ s.edgeBps = Num(300)

\* C2: every emitted signal comes from an opinion about a candidate of the
\* batch and carries that side's prices: the YES price and probability for
\* side YES, their complements for side NO, and the rounded difference.
C2_SideAwarePricing ==
    epc = "done" =>
        \A s \in Emitted :
            \E a \in Flagged, m \in Batch :
                /\ a.marketId = m.id
                /\ s.marketId = m.id
                /\ s.side = a.side
                /\ a.side = "YES" =>
                      /\ s.marketPrice = m.currentPrice
                      /\ s.aiFairPrice = YesProbOf(a)
                /\ a.side = "NO" =>
                      /\ s.marketPrice = Complement(m.currentPrice)
                      /\ s.aiFairPrice = Complement(YesProbOf(a))
                /\ IsRounded(s.edgeBps, s.aiFairPrice, s.marketPrice)

\* C2's example (yesPrice 0.10, aiProbability 40, side YES gives 0.10, 0.40
\* and 3000) beside a signal on side NO.
C2_Witness ==
    /\ epc = "done"
    /\ \E s \in Emitted :
          /\ s.side = "YES"
          /\ s.marketPrice = Num(2000)
          /\ s.aiFairPrice = Num(8000)
          /\ s.edgeBps = Num(3000)
    /\ \E s \in Emitted :
          /\ s.side = "NO"
          /\ s.marketPrice = Num(14000)
          /\ s.aiFairPrice = Num(17400)
          /\ s.edgeBps = Num(1700)

\* C3: on the same yesPrice and yesProb the edgeBps of side NO is the
\* negation of the edgeBps of side YES.
C3_Antisymmetric ==
    epc = "done" =>
        \A a \in Flagged, m \in Batch :
            YesProbOf(a).k = "num" =>
                LET p == aiYesProb(a)
                    y == edgeBps(aiFairSidePrice(TRUE, p),
                                 marketSidePrice(TRUE, m.currentPrice))
                    n == edgeBps(aiFairSidePrice(FALSE, p),
                                 marketSidePrice(FALSE, m.currentPrice))
                IN  n.v = 0 - y.v

\* A missing value of the candidate is stored as null.
SameOrAbsent(stored, given) ==
    \/ stored = given
    \/ stored = Null /\ given = Undefined

\* C5: every emitted signal's marketId is the id of a candidate of the
\* batch, and its question, volume, liquidity and end date are that
\* candidate's.
C5_SignalOfBatchCandidate ==
    epc = "done" =>
        \A s \in Emitted :
            \E m \in Batch :
                /\ s.marketId = m.id
                /\ s.marketQuestion = m.question
                /\ SameOrAbsent(s.volume, m.volume)
                /\ SameOrAbsent(s.liquidity, m.liquidity)
                /\ \/ s.endDate = Null /\ m.endDate = Undefined
                   \/ s.endDate.k = "date" /\ m.endDate.k = "str"
                      /\ s.endDate.v = m.endDate.v

----------------------------------------------------------------------------
\* analyzeMarkets: the judge call

\* What the judge endpoint can answer:
\*   apiError      openai.chat.completions.create rejects (network, auth)
\*   emptyContent  choices[0]?.message?.content is missing or empty
\*   notJson       the content is not JSON: JSON.parse throws
\*   noAnalyses    a JSON object without "analyses" (or with a falsy one)
\*   notIterable   a JSON object whose "analyses" is a number or an object
\*   json          a JSON object whose "analyses" is the array of opinions
JudgeFailureKinds == {"apiError", "emptyContent", "notJson"}
JudgeSchemaViolationKinds == {"noAnalyses", "notIterable"}

\* A parse error is swallowed and read as no opinions.
analyzeMarkets_SwallowsParseError(ms, answer) ==
    IF Len(ms) = 0 \/ answer.kind \in {"notJson", "noAnalyses"}
    THEN [threw |-> FALSE, iterable |-> TRUE, value |-> <<>>]
    ELSE IF answer.kind \in JudgeFailureKinds
    THEN [threw |-> TRUE, iterable |-> TRUE, value |-> <<>>]
    ELSE [threw |-> FALSE, iterable |-> answer.kind # "notIterable",
          value |-> answer.analyses]

\* The outcome of analyzeMarkets(topic.name, ms) when the endpoint answers
\* `answer`: it throws, or returns parsed.analyses || [].
analyzeMarkets(ms, answer) ==
    IF Len(ms) = 0
    THEN [threw |-> FALSE, iterable |-> TRUE, value |-> <<>>]
    ELSE IF answer.kind \in JudgeFailureKinds
    THEN [threw |-> TRUE, iterable |-> TRUE, value |-> <<>>]
    ELSE IF answer.kind = "noAnalyses"
    THEN [threw |-> FALSE, iterable |-> TRUE, value |-> <<>>]
    ELSE [threw |-> FALSE, iterable |-> answer.kind # "notIterable",
          value |-> answer.analyses]

----------------------------------------------------------------------------
\* POST /api/topics/:id/scan

MaxScans == 2
MaxJudgeOpinions == 2

HTTP_OK == 200
HTTP_NOT_FOUND == 404
HTTP_ERROR == 500

MsgTopicNotFound == "Topic not found"
MsgNoMarkets == "No markets found for this topic"
MsgNoMispricings == "No significant mispricings detected"
MsgFound == "Found N new signals"
MsgFailed == "Failed to scan for signals"

Reply(status, message, n) == [status |-> status, message |-> message, count |-> n]

\* What fetchMarketsForTopic hands to the route: nothing, one candidate, two.
ScanMarketBatches ==
    { <<>>,
      << [id |-> "m1", question |-> "q1", description |-> Str(1),
          currentPrice |-> Num(2000), volume |-> Num(500),
          liquidity |-> Num(40), endDate |-> Str(7)] >>,
      << [id |-> "m1", question |-> "q1", description |-> Str(1),
          currentPrice |-> Num(2000), volume |-> Num(500),
          liquidity |-> Num(40), endDate |-> Str(7)],
         [id |-> "m2", question |-> "q5", description |-> Str(4),
          currentPrice |-> Num(6000), volume |-> Num(900),
          liquidity |-> Num(60), endDate |-> Str(7)] >> }

\* Opinions of the judge: a material edge on m1 (3000), an edge below the
\* gate (-300), unflagged opinions of both candidates, an unknown market (an
\* opinion of m2 is one of an unknown market too when m1 is the only
\* candidate).
ScanOpinionPool ==
    { Opinion("m1", Num(40), "YES", Bool(TRUE)),
      Opinion("m1", Num(13), "NO", Bool(TRUE)),
      Opinion("m1", Num(40), "YES", Bool(FALSE)),
      Opinion("m2", Num(13), "NO", Bool(FALSE)),
      Opinion("mX", Num(40), "YES", Bool(TRUE)) }

JudgeAnswers ==
    { [kind |-> k, analyses |-> <<>>] :
        k \in JudgeFailureKinds \cup JudgeSchemaViolationKinds }
    \cup { [kind |-> "json", analyses |-> a] :
             a \in UNION { [1..n -> ScanOpinionPool] : n \in 0..MaxJudgeOpinions } }

\* A stored row: the inserted values, the generated id, the default status.
Row(input, id) == [id |-> id, status |-> "active", data |-> input]

\* The stored rows are replaced by the inserted ones.
insertRows_Replacing(rows, inputs) ==
    [i \in 1..Len(inputs) |-> Row(inputs[i], i)]

RECURSIVE insertRows(_, _)
insertRows(rows, inputs) ==
    IF inputs = <<>> THEN rows
    ELSE insertRows(Append(rows, Row(Head(inputs), Len(rows) + 1)), Tail(inputs))

\* The rows updateTopicSignalCount counts.
activeSignalsOf(rows, t) ==
    {i \in 1..Len(rows) : rows[i].data.topicId = t /\ rows[i].status = "active"}

Respond(r) == /\ response' = r
              /\ spc' = "responded"

ScanInit ==
    /\ epc = "unused"
    /\ markets = <<>>
    /\ analyses = <<>>
    /\ signals = <<>>
    /\ ScanIdle
    /\ FetchIdle
    /\ LifeIdle
    /\ OtherIdle

\* The request arrives: const { id: topicId } = req.params
ScanRequest(t) ==
    /\ spc = "idle"
    /\ nScans < MaxScans
    /\ nScans' = nScans + 1
    /\ topicId' = t
    /\ spc' = "getTopic"
    /\ rowsBefore' = [rows |-> sigRows, count |-> activeSignalCount]
    /\ UNCHANGED fetchVars
    /\ UNCHANGED <<lifeVars, otherVars>>
    /\ UNCHANGED <<epc, markets, analyses, signals, judge, response, sigRows,
                   activeSignalCount, calls>>

\* await storage.getTopic(topicId) resolves
GetTopicReturns ==
    /\ spc = "getTopic"
    /\ IF topicId \in Topics
       THEN spc' = "fetch" /\ UNCHANGED response
       ELSE Respond(Reply(HTTP_NOT_FOUND, MsgTopicNotFound, 0))
    /\ UNCHANGED fetchVars
    /\ UNCHANGED <<lifeVars, otherVars>>
    /\ UNCHANGED <<epc, markets, analyses, signals, topicId, judge, sigRows,
                   activeSignalCount, nScans, calls, rowsBefore>>

\* await storage.getTopic(topicId) rejects
GetTopicFails ==
    /\ spc = "getTopic"
    /\ Respond(Reply(HTTP_ERROR, MsgFailed, 0))
    /\ UNCHANGED fetchVars
    /\ UNCHANGED <<lifeVars, otherVars>>
    /\ UNCHANGED <<epc, markets, analyses, signals, topicId, judge, sigRows,
                   activeSignalCount, nScans, calls, rowsBefore>>

\* await fetchMarketsForTopic(topic.keywords || []) resolves with ms
FetchReturns(ms) ==
    /\ spc = "fetch"
    /\ markets' = ms
    /\ calls' = [calls EXCEPT !.fetchMarketsForTopic = @ + 1]
    /\ IF Len(ms) = 0
       THEN Respond(Reply(HTTP_OK, MsgNoMarkets, 0))
       ELSE spc' = "judge" /\ UNCHANGED response
    /\ UNCHANGED fetchVars
    /\ UNCHANGED <<lifeVars, otherVars>>
    /\ UNCHANGED <<epc, analyses, signals, topicId, judge, sigRows,
                   activeSignalCount, nScans, rowsBefore>>

\* await analyzeMarkets(topic.name, markets) settles on the endpoint's
\* answer; the handler runs on to its next await or to its response.
JudgeAnswersScan(answer) ==
    /\ spc = "judge"
    /\ judge' = answer
    /\ calls' = [calls EXCEPT !.judge = @ + 1]
    /\ LET got == analyzeMarkets(markets, answer)
           inputs == createSignalsFromAnalysis(topicId, markets, got.value)
       IN  IF got.threw \/ ~got.iterable
           THEN /\ Respond(Reply(HTTP_ERROR, MsgFailed, 0))
                /\ UNCHANGED <<analyses, signals>>
           ELSE /\ analyses' = got.value
                /\ signals' = inputs
                /\ IF Len(inputs) = 0
                   THEN Respond(Reply(HTTP_OK, MsgNoMispricings, 0))
                   ELSE spc' = "createSignals" /\ UNCHANGED response
    /\ UNCHANGED fetchVars
    /\ UNCHANGED <<lifeVars, otherVars>>
    /\ UNCHANGED <<epc, markets, topicId, sigRows, activeSignalCount, nScans,
                   rowsBefore>>

\* await storage.createSignals(signalInputs) resolves: one INSERT
CreateSignalsReturns ==
    /\ spc = "createSignals"
    /\ calls' = [calls EXCEPT !.createSignals = @ + 1]
    /\ sigRows' = insertRows(sigRows, signals)
    /\ spc' = "updateTopicSignalCount"
    /\ UNCHANGED fetchVars
    /\ UNCHANGED <<lifeVars, otherVars>>
    /\ UNCHANGED <<epc, markets, analyses, signals, topicId, judge, response,
                   activeSignalCount, nScans, rowsBefore>>

\* await storage.createSignals(signalInputs) rejects: nothing is inserted
CreateSignalsFails ==
    /\ spc = "createSignals"
    /\ calls' = [calls EXCEPT !.createSignals = @ + 1]
    /\ Respond(Reply(HTTP_ERROR, MsgFailed, 0))
    /\ UNCHANGED fetchVars
    /\ UNCHANGED <<lifeVars, otherVars>>
    /\ UNCHANGED <<epc, markets, analyses, signals, topicId, judge, sigRows,
                   activeSignalCount, nScans, rowsBefore>>

\* await storage.updateTopicSignalCount(topicId) resolves
UpdateCountReturns ==
    /\ spc = "updateTopicSignalCount"
    /\ calls' = [calls EXCEPT !.updateTopicSignalCount = @ + 1]
    /\ activeSignalCount' =
          [activeSignalCount EXCEPT
              ![topicId] = Cardinality(activeSignalsOf(sigRows, topicId))]
    /\ Respond(Reply(HTTP_OK, MsgFound, Len(signals)))
    /\ UNCHANGED fetchVars
    /\ UNCHANGED <<lifeVars, otherVars>>
    /\ UNCHANGED <<epc, markets, analyses, signals, topicId, judge, sigRows,
                   nScans, rowsBefore>>

\* await storage.updateTopicSignalCount(topicId) rejects
UpdateCountFails ==
    /\ spc = "updateTopicSignalCount"
    /\ calls' = [calls EXCEPT !.updateTopicSignalCount = @ + 1]
    /\ Respond(Reply(HTTP_ERROR, MsgFailed, 0))
    /\ UNCHANGED fetchVars
    /\ UNCHANGED <<lifeVars, otherVars>>
    /\ UNCHANGED <<epc, markets, analyses, signals, topicId, judge, sigRows,
                   activeSignalCount, nScans, rowsBefore>>

\* The response is sent; the handler's locals are gone.
ScanEnds ==
    /\ spc = "responded"
    /\ spc' = "idle"
    /\ topicId' = "none"
    /\ markets' = <<>>
    /\ analyses' = <<>>
    /\ signals' = <<>>
    /\ judge' = NoJudge
    /\ response' = NoResponse
    /\ calls' = NoCalls
    /\ UNCHANGED fetchVars
    /\ UNCHANGED <<lifeVars, otherVars>>
    /\ UNCHANGED <<epc, sigRows, activeSignalCount, nScans, rowsBefore>>

Next ==
    \/ \E t \in Topics \cup {"tX"} : ScanRequest(t)
    \/ GetTopicReturns
    \/ GetTopicFails
    \/ \E ms \in ScanMarketBatches : FetchReturns(ms)
    \/ \E answer \in JudgeAnswers : JudgeAnswersScan(answer)
    \/ CreateSignalsReturns
    \/ CreateSignalsFails
    \/ UpdateCountReturns
    \/ UpdateCountFails
    \/ ScanEnds

Spec == ScanInit /\ [][Next]_vars

----------------------------------------------------------------------------
\* Claims about the scan route (specification Spec)

Responded == spc = "responded" /\ topicId \in Topics

\* C4: an opinion whose shouldTrade is false yields no signal (every signal
\* has a flagged opinion of its market and side, and there are no more
\* signals than flagged opinions); a scan whose judge flags no opinion
\* answers "No significant mispricings detected" and stores nothing.
C4_UnflaggedNeverSignals ==
    /\ \A s \in Emitted :
          \E a \in Flagged :
              a.shouldTrade = Bool(TRUE) /\ a.marketId = s.marketId /\ a.side = s.side
    /\ Len(signals)
          <= Cardinality({i \in 1..Len(analyses) : analyses[i].shouldTrade = Bool(TRUE)})
    /\ ( /\ Responded
         /\ judge.kind = "json"
         /\ judge.analyses # <<>>
         /\ \A i \in 1..Len(judge.analyses) :
               judge.analyses[i].shouldTrade = Bool(FALSE) )
       => /\ response = Reply(HTTP_OK, MsgNoMispricings, 0)
          /\ signals = <<>>
          /\ calls.createSignals = 0
          /\ sigRows = rowsBefore.rows

\* Two candidates, an unflagged opinion for each, on top of stored rows.
C4_Witness ==
    /\ Responded
    /\ Len(markets) = 2
    /\ judge.kind = "json"
    /\ \A i \in 1..Len(markets) :
          \E j \in 1..Len(judge.analyses) :
              /\ judge.analyses[j].marketId = markets[i].id
              /\ judge.analyses[j].shouldTrade = Bool(FALSE)
    /\ \A j \in 1..Len(judge.analyses) : judge.analyses[j].shouldTrade = Bool(FALSE)
    /\ response.message = MsgNoMispricings
    /\ sigRows # <<>>

\* C6: when the judge call fails (API error, empty content, content that is
\* not JSON) the scan answers with the hard error, calls neither
\* createSignals nor updateTopicSignalCount, and leaves the stored signals
\* and the topic counters as they were.
C6_JudgeFailureAborts ==
    (Responded /\ judge.kind \in JudgeFailureKinds) =>
        /\ response = Reply(HTTP_ERROR, MsgFailed, 0)
        /\ calls.createSignals = 0
        /\ calls.updateTopicSignalCount = 0
        /\ sigRows = rowsBefore.rows
        /\ activeSignalCount = rowsBefore.count

\* The judge's content is not JSON, in a scan that follows one that stored
\* signals.
C6_Witness ==
    /\ Responded
    /\ judge.kind = "notJson"
    /\ Len(markets) = 2
    /\ response.status = HTTP_ERROR
    /\ sigRows # <<>>

\* C7: a scan of an existing topic answers "No markets found" exactly when
\* fetchMarketsForTopic returned no candidate (and then without a judge
\* call), "No significant mispricings detected" exactly when there are
\* candidates, the judge succeeded and no opinion passed the gate, "Found N
\* new signals" with N >= 1 the number of rows it stored, or the hard
\* error; a failure of the judge (API error, empty or non-JSON content,
\* schema violation) or of the storage is answered with the hard error.
C7_FourOutcomes ==
    Responded =>
        /\ response.message \in {MsgNoMarkets, MsgNoMispricings, MsgFound, MsgFailed}
        /\ response.message = MsgNoMarkets
              <=> (calls.fetchMarketsForTopic = 1 /\ markets = <<>>)
        /\ response.message = MsgNoMarkets => calls.judge = 0
        /\ response.message = MsgNoMispricings
              <=> (markets # <<>> /\ judge.kind = "json" /\ signals = <<>>)
        /\ response.message = MsgFound
              => /\ response.count >= 1
                 /\ response.count = Len(sigRows) - Len(rowsBefore.rows)
        /\ judge.kind \in JudgeFailureKinds \cup JudgeSchemaViolationKinds
              => response = Reply(HTTP_ERROR, MsgFailed, 0)

----------------------------------------------------------------------------
\* Strings of the catalog and of the topic keywords: sequences of characters

Chars(str) ==
    CASE str = "" -> <<>>
      [] str = "abc" -> <<"a", "b", "c">>
      [] str = "Abc" -> <<"A", "b", "c">>
      [] str = "ABC" -> <<"A", "B", "C">>
      [] str = "ab" -> <<"a", "b">>
      [] str = "bca" -> <<"b", "c", "a">>
      [] str = "cab" -> <<"c", "a", "b">>
      [] str = "cc" -> <<"c", "c">>
      [] str = "bca abc" -> <<"b", "c", "a", " ", "a", "b", "c">>
      [] str = "abc bca" -> <<"a", "b", "c", " ", "b", "c", "a">>
      [] str = "abc  bca" -> <<"a", "b", "c", " ", " ", "b", "c", "a">>
      [] str = "ab bca" -> <<"a", "b", " ", "b", "c", "a">>
      [] str = "xabcx" -> <<"x", "a", "b", "c", "x">>

Text(str) == [k |-> "str", v |-> Chars(str)]
NoText == [k |-> "undefined", v |-> <<>>]

\* String.prototype.toLowerCase
lowerChar(c) ==
    CASE c = "A" -> "a" [] c = "B" -> "b" [] c = "C" -> "c" [] OTHER -> c
toLowerCase(s) == [i \in 1..Len(s) |-> lowerChar(s[i])]

\* String.prototype.includes
includes(s, sub) ==
    \E i \in 0..(Len(s) - Len(sub)) : SubSeq(s, i + 1, i + Len(sub)) = sub

isSpace(c) == c = " "

\* String.prototype.split(/\s+/): the pieces between maximal runs of white
\* space (an empty piece before a leading run and after a trailing one).
RECURSIVE splitFrom(_, _, _, _)
splitFrom(s, i, cur, acc) ==
    IF i > Len(s) THEN Append(acc, cur)
    ELSE IF isSpace(s[i])
         THEN IF i > 1 /\ isSpace(s[i - 1])
              THEN splitFrom(s, i + 1, cur, acc)
              ELSE splitFrom(s, i + 1, <<>>, Append(acc, cur))
         ELSE splitFrom(s, i + 1, Append(cur, s[i]), acc)
splitWhitespace(s) == splitFrom(s, 1, <<>>, <<>>)

\* [a, b, c].filter(Boolean).join(" ")
isText(part) == part.k = "str" /\ part.v # <<>>

RECURSIVE join(_)
join(parts) ==
    IF parts = <<>> THEN <<>>
    ELSE IF Len(parts) = 1 THEN parts[1].v
    ELSE parts[1].v \o <<" ">> \o join(Tail(parts))

joinTexts(parts) == join(SelectSeq(parts, isText))

----------------------------------------------------------------------------
\* matchesKeywords

MIN_WORD_LENGTH == 2

searchText(market) ==
    toLowerCase(joinTexts(<<market.question, market.groupItemTitle,
                            market.description>>))

\* Only the whole keyword is looked for.
keywordMatches_WholeOnly(text, keyword) ==
    includes(text, toLowerCase(keyword))

keywordMatches(text, keyword) ==
    LET lowerKeyword == toLowerCase(keyword)
        words == splitWhitespace(lowerKeyword)
    IN  \/ includes(text, lowerKeyword)
        \/ \A i \in 1..Len(words) :
              Len(words[i]) > MIN_WORD_LENGTH /\ includes(text, words[i])

matchesKeywords(market, keywords) ==
    \E i \in 1..Len(keywords) : keywordMatches(searchText(market), keywords[i])

----------------------------------------------------------------------------
\* parseYesPrice, getYesTokenId, fetchClobPrice

\* A JSON-encoded array field of a listing: missing, not JSON, or the array.
NoField == [k |-> "undefined", v |-> <<>>]
NotJson == [k |-> "notJson", v |-> <<>>]
Json(arr) == [k |-> "json", v |-> arr]

\* A string of a price array: a decimal number, or text that is no number.
NumStr(n) == [k |-> "numstr", v |-> n]
Garbage == [k |-> "str", v |-> 0]

parseFloat(x) == IF x.k = "numstr" THEN Num(x.v) ELSE NaN

\* !isNaN(price) && price >= 0 && price <= 1
isProbability(price) == price.k = "num" /\ price.v >= 0 /\ price.v <= Scale

lowerOutcome(o) ==
    CASE o \in {"Yes", "YES", "yes"} -> "yes"
      [] o \in {"True", "true"} -> "true"
      [] o \in {"No", "NO", "no"} -> "no"
      [] OTHER -> o

\* outcomes.findIndex(o => o.toLowerCase() === "yes" || ... === "true"),
\* 1-based; 0 when there is none
yesIndexOf(outcomes) ==
    LET hits == {i \in 1..Len(outcomes) :
                    lowerOutcome(outcomes[i]) \in {"yes", "true"}}
    IN  IF hits = {} THEN 0 ELSE CHOOSE i \in hits : \A j \in hits : i <= j

DefaultOutcomes == <<"Yes", "No">>

parseYesPrice(market) ==
    IF market.outcomePrices.k = "undefined" THEN Null
    ELSE IF market.outcomePrices.k = "notJson" \/ market.outcomes.k = "notJson"
    THEN Null
    ELSE LET prices == market.outcomePrices.v
             outcomes == IF market.outcomes.k = "undefined"
                         THEN DefaultOutcomes ELSE market.outcomes.v
             yesIndex == yesIndexOf(outcomes)
             byName == IF yesIndex >= 1 /\ yesIndex <= Len(prices)
                       THEN parseFloat(prices[yesIndex]) ELSE NaN
             first == IF Len(outcomes) = 2 /\ Len(prices) >= 1
                      THEN parseFloat(prices[1]) ELSE NaN
         IN  IF isProbability(byName) THEN byName
             ELSE IF isProbability(first) THEN first
             ELSE Null

NoToken == "none"

getYesTokenId(market) ==
    IF market.clobTokenIds.k # "json" \/ market.outcomes.k # "json" THEN NoToken
    ELSE LET tokenIds == market.clobTokenIds.v
             yesIndex == yesIndexOf(market.outcomes.v)
         IN  IF yesIndex >= 1 /\ yesIndex <= Len(tokenIds)
             THEN tokenIds[yesIndex]
             ELSE IF Len(tokenIds) >= 1 THEN tokenIds[1] ELSE NoToken

\* What the quote endpoint can do with one request: fail to connect, stay
\* silent until the 3 s timer aborts, answer a non-2xx status, answer a
\* body that is not JSON, or answer {price: <string>}.
QuoteFailureKinds == {"networkError", "timeout", "status", "notJson"}

\* Every number the endpoint answers is taken as a price.
fetchClobPrice_AnyNumber(answer) ==
    IF answer.kind \in QuoteFailureKinds THEN Null
    ELSE LET price == parseFloat(answer.price)
         IN  IF price.k = "num" THEN price ELSE Null

fetchClobPrice(answer) ==
    IF answer.kind \in QuoteFailureKinds THEN Null
    ELSE LET price == parseFloat(answer.price)
         IN  IF isProbability(price) THEN price ELSE Null

----------------------------------------------------------------------------
\* Inputs of fetchMarketsForTopic

MaxListings == 2

YesNo == Json(<<"Yes", "No">>)
NoYes == Json(<<"No", "Yes">>)
Tokens == Json(<<"tokA", "tokB">>)
Prices(a, b) == Json(<<NumStr(a), NumStr(b)>>)

\* A listing of the catalog response, without its id.
Listing(q, title, desc, closed, outcomes, prices, tokens, vol) ==
    [question |-> q, groupItemTitle |-> title, description |-> desc,
     closed |-> closed, outcomes |-> outcomes, outcomePrices |-> prices,
     clobTokenIds |-> tokens, volume |-> vol, liquidity |-> Num(40),
     endDate |-> Str(7)]

\* Open, priced listings that differ in their text and volume.
TextVariants ==
    { Listing(Text("abc"), NoText, NoText, FALSE, YesNo, Prices(2000, 18000),
              Tokens, Num(500)),
      Listing(Text("bca abc"), NoText, NoText, FALSE, NoYes, Prices(8000, 12000),
              Tokens, Num(900)),
      Listing(Text("Abc"), Text("bca"), NoText, FALSE, YesNo, Prices(6000, 14000),
              NoField, Num(400)),
      Listing(Text("xabcx"), NoText, Text(""), FALSE, NoField, Prices(5000, 15000),
              Tokens, Num(300)),
      Listing(Text("ab"), NoText, Text("bca"), FALSE, YesNo, Prices(4000, 16000),
              Tokens, Num(200)),
      Listing(Text("cc"), NoText, NoText, FALSE, YesNo, Prices(10000, 10000),
              Tokens, Num(1000)) }

\* Listings that match the keyword "abc" and are closed, or carry a price
\* vector without a valid YES price, or have no ranking volume.
OtherVariants ==
    { Listing(Text("abc"), NoText, NoText, TRUE, YesNo, Prices(2000, 18000),
              Tokens, Num(800)),
      Listing(Text("abc"), NoText, NoText, FALSE, NoYes,
              Json(<<NumStr(8000), Garbage>>), Tokens, Num(700)),
      Listing(Text("abc"), NoText, NoText, FALSE, YesNo, NoField, Tokens, Num(600)),
      Listing(Text("abc"), NoText, NoText, FALSE, YesNo, NotJson, Tokens, Num(600)),
      Listing(Text("abc"), NoText, NoText, FALSE, YesNo,
              Json(<<NumStr(30000), NumStr(8000)>>), Tokens, Num(650)),
      Listing(Text("abc"), NoText, NoText, FALSE, Json(<<"Up", "Down">>),
              Prices(7000, 13000), Tokens, Undefined),
      Listing(Text("abc"), NoText, NoText, FALSE, YesNo, Prices(9000, 11000),
              Tokens, Num(0)) }

ListingVariants == TextVariants \cup OtherVariants

ListingWithId(l, id) ==
    [id |-> id, question |-> l.question, groupItemTitle |-> l.groupItemTitle,
     description |-> l.description, closed |-> l.closed, outcomes |-> l.outcomes,
     outcomePrices |-> l.outcomePrices, clobTokenIds |-> l.clobTokenIds,
     volume |-> l.volume, liquidity |-> l.liquidity, endDate |-> l.endDate]

\* Catalog responses of 0..MaxListings listings; the venue's ids are distinct.
Catalogs ==
    UNION { { [i \in 1..n |-> ListingWithId(f[i], MarketIdAt(i))] :
              f \in [1..n -> ListingVariants] } : n \in 0..MaxListings }

KeywordLists ==
    { <<>>,
      <<Chars("abc")>>,
      <<Chars("ABC")>>,
      <<Chars("abc bca")>>,
      <<Chars("abc  bca")>>,
      <<Chars("cab"), Chars("ab bca")>> }

\* Answers of the quote endpoint to one request.
QuoteAnswers ==
    { [kind |-> k, price |-> Garbage] : k \in QuoteFailureKinds }
    \cup { [kind |-> "price", price |-> p] :
             p \in {NumStr(7000), NumStr(3 * 10000), NumStr(0 - 1), Garbage} }

----------------------------------------------------------------------------
\* fetchMarketsForTopic

TOP_MARKETS == 10
ENRICH_MARKETS == 5
FEW_MATCHES == 3
FALLBACK_MARKETS == 5

\* { id, question, description, currentPrice, volume, liquidity, endDate }
toMarketData(market, price) ==
    [id |-> market.id, question |-> market.question,
     description |-> market.description, currentPrice |-> price,
     volume |-> market.volume, liquidity |-> market.liquidity,
     endDate |-> market.endDate]

\* The filter loop without the test of market.closed.
keepsMarket_AlsoClosed(market, keywords) ==
    /\ matchesKeywords(market, keywords)
    /\ parseYesPrice(market) # Null

\* The filter loop over allMarkets.
keepsMarket(market, keywords) ==
    /\ ~market.closed
    /\ matchesKeywords(market, keywords)
    /\ parseYesPrice(market) # Null

RECURSIVE matchingUpTo(_, _, _)
matchingUpTo(all, keywords, n) ==
    IF n = 0 THEN <<>>
    ELSE LET before == matchingUpTo(all, keywords, n - 1)
         IN  IF keepsMarket(all[n], keywords)
             THEN Append(before, toMarketData(all[n], parseYesPrice(all[n])))
             ELSE before

\* b.volume || 0
volumeOrZero(m) == IF Truthy(m.volume) THEN m.volume.v ELSE 0

\* Array.prototype.sort((a, b) => (b.volume || 0) - (a.volume || 0)): stable,
\* by descending volume.
\* The array is left in the order of the response.
sortByVolume_Unsorted(ms) == ms

sortByVolume(ms) ==
    LET n == Len(ms)
        rank(i) == Cardinality({j \in 1..n :
                       \/ volumeOrZero(ms[j]) > volumeOrZero(ms[i])
                       \/ volumeOrZero(ms[j]) = volumeOrZero(ms[i]) /\ j <= i})
    IN  [p \in 1..n |-> ms[CHOOSE i \in 1..n : rank(i) = p]]

\* Array.prototype.slice(0, n)
slice(ms, n) == SubSeq(ms, 1, IF Len(ms) < n THEN Len(ms) ELSE n)

\* typeof m.volume === 'number' && m.volume > 0
hasVolume(m) == m.volume.k = "num" /\ m.volume.v > 0

sortedOf(matching) == slice(sortByVolume(SelectSeq(matching, hasVolume)), TOP_MARKETS)

\* The quote request of one market to enrich: none when the listing has no
\* YES token, else pending until the quote endpoint has answered.
quoteFor(all, market) ==
    LET hits == {i \in 1..Len(all) : all[i].id = market.id}
        tokenId == IF hits = {} THEN NoToken
                   ELSE getYesTokenId(all[CHOOSE i \in hits : \A j \in hits : i <= j])
    IN  [marketId |-> market.id, tokenId |-> tokenId,
         state |-> IF tokenId = NoToken THEN "none" ELSE "pending",
         livePrice |-> Null]

\* A quote request for every ranked market, not only the first five.
quotesFor_AllRanked(all, sorted) ==
    [i \in 1..Len(sorted) |-> quoteFor(all, sorted[i])]

quotesFor(all, sorted) ==
    LET toEnrich == slice(sorted, ENRICH_MARKETS)
    IN  [i \in 1..Len(toEnrich) |-> quoteFor(all, toEnrich[i])]

\* The loop over clobResults: a live price replaces the catalog's price
\* (clobResults[i] is the result for sortedMarkets[i]; ids are distinct).
\* Live prices are applied only when every request delivered one.
withLivePrices_AllOrNothing(sorted, qs) ==
    IF \A i \in 1..Len(qs) : qs[i].state = "settled" /\ qs[i].livePrice # Null
    THEN [i \in 1..Len(sorted) |->
            IF i <= Len(qs) THEN [sorted[i] EXCEPT !.currentPrice = qs[i].livePrice]
            ELSE sorted[i]]
    ELSE sorted

\* Each candidate takes the price of its neighbour's request.
withLivePrices_Misassigned(sorted, qs) ==
    [i \in 1..Len(sorted) |->
        IF i <= Len(qs) /\ qs[(i % Len(qs)) + 1].livePrice # Null
        THEN [sorted[i] EXCEPT !.currentPrice = qs[(i % Len(qs)) + 1].livePrice]
        ELSE sorted[i]]

withLivePrices(sorted, qs) ==
    [i \in 1..Len(sorted) |->
        IF i <= Len(qs) /\ qs[i].state = "settled" /\ qs[i].livePrice # Null
        THEN [sorted[i] EXCEPT !.currentPrice = qs[i].livePrice]
        ELSE sorted[i]]

isOpenAndPriced(market) == ~market.closed /\ parseYesPrice(market) # Null

topVolumeMarkets(all) ==
    LET top == slice(sortByVolume(SelectSeq(all, isOpenAndPriced)), FALLBACK_MARKETS)
    IN  [i \in 1..Len(top) |-> toMarketData(top[i], parseYesPrice(top[i]))]

\* Merge without duplicates, stopping once the list holds TOP_MARKETS.
RECURSIVE mergeFrom(_, _, _, _)
mergeFrom(sorted, top, i, existingIds) ==
    IF i > Len(top) THEN sorted
    ELSE IF top[i].id \in existingIds
    THEN mergeFrom(sorted, top, i + 1, existingIds)
    ELSE IF Len(sorted) + 1 >= TOP_MARKETS THEN Append(sorted, top[i])
    ELSE mergeFrom(Append(sorted, top[i]), top, i + 1, existingIds)

\* The top markets by volume are merged whatever the number of matches.
withFallback_Always(all, sorted) ==
    mergeFrom(sorted, topVolumeMarkets(all), 1,
              {sorted[j].id : j \in 1..Len(sorted)})

withFallback(all, sorted) ==
    IF Len(sorted) < FEW_MATCHES
    THEN mergeFrom(sorted, topVolumeMarkets(all), 1,
                   {sorted[j].id : j \in 1..Len(sorted)})
    ELSE sorted

\* What the catalog endpoint can do after the response headers: the body
\* stream breaks, the body is not JSON, or it is JSON but no array.
BodyFailureKinds == {"bodyError", "notJson", "notArray"}

FetchInit ==
    /\ epc = "unused"
    /\ markets = <<>>
    /\ analyses = <<>>
    /\ signals = <<>>
    /\ ScanIdle
    /\ LifeIdle
    /\ OtherIdle
    /\ fpc = "start"
    /\ topicKeywords \in KeywordLists
    /\ catalog \in Catalogs
    /\ timer = "unset"
    /\ upstream = NoUpstream
    /\ allMarkets = <<>>
    /\ matchingMarkets = <<>>
    /\ sortedMarkets = <<>>
    /\ quotes = <<>>
    /\ result = <<>>

\* return [] of the status check and of the catch block (which clears the
\* timer)
ReturnsEmpty(outcome) ==
    /\ fpc' = "returned"
    /\ timer' = "cleared"
    /\ upstream' = [upstream EXCEPT !.outcome = outcome]
    /\ result' = <<>>
    /\ UNCHANGED <<edgeVars, scanVars, lifeVars, otherVars>>
    /\ UNCHANGED <<topicKeywords, catalog, allMarkets, matchingMarkets,
                   sortedMarkets, quotes>>

\* setTimeout(() => controller.abort(), 15000); fetch(...markets...)
FetchStart ==
    /\ fpc = "start"
    /\ fpc' = "awaitHeaders"
    /\ timer' = "armed"
    /\ upstream' = [upstream EXCEPT !.requests = @ + 1]
    /\ UNCHANGED <<edgeVars, scanVars, lifeVars, otherVars>>
    /\ UNCHANGED <<topicKeywords, catalog, allMarkets, matchingMarkets,
                   sortedMarkets, quotes, result>>

\* fetch rejects: the upstream is unreachable.
CatalogUnreachable ==
    /\ fpc = "awaitHeaders"
    /\ ReturnsEmpty("unreachable")

\* 15 s pass before the response headers: the timer aborts the request and
\* fetch rejects with an AbortError.
DeadlineAborts ==
    /\ fpc = "awaitHeaders"
    /\ timer = "armed"
    /\ ReturnsEmpty("timeout")

\* The response headers arrive with a non-2xx status: clearTimeout,
\* !response.ok, return [].
CatalogStatus ==
    /\ fpc = "awaitHeaders"
    /\ ReturnsEmpty("status")

\* The response headers arrive with a 2xx status: clearTimeout, then
\* await response.json().
CatalogHeaders ==
    /\ fpc = "awaitHeaders"
    /\ fpc' = "awaitBody"
    /\ timer' = "cleared"
    /\ UNCHANGED <<edgeVars, scanVars, lifeVars, otherVars>>
    /\ UNCHANGED <<topicKeywords, catalog, upstream, allMarkets, matchingMarkets,
                   sortedMarkets, quotes, result>>

\* 15 s have passed since the call began while the body is still awaited;
\* the timer was cleared at the headers, so nothing aborts.
DeadlinePasses ==
    /\ fpc = "awaitBody"
    /\ timer = "cleared"
    /\ ~upstream.deadlinePassed
    /\ upstream' = [upstream EXCEPT !.deadlinePassed = TRUE]
    /\ UNCHANGED <<edgeVars, scanVars, lifeVars, otherVars>>
    /\ UNCHANGED <<fpc, topicKeywords, catalog, timer, allMarkets,
                   matchingMarkets, sortedMarkets, quotes, result>>

\* response.json() rejects, or allMarkets is not iterable: catch, return [].
CatalogBodyFails(kind) ==
    /\ fpc = "awaitBody"
    /\ ReturnsEmpty(kind)

\* response.json() resolves with the listings: filter, sort, top 10, and
\* the quote requests of the first 5.
CatalogBody ==
    /\ fpc = "awaitBody"
    /\ fpc' = "awaitQuotes"
    /\ upstream' = [upstream EXCEPT !.outcome = "ok",
                                    !.bodyLate = upstream.deadlinePassed]
    /\ allMarkets' = catalog
    /\ matchingMarkets' = matchingUpTo(catalog, topicKeywords, Len(catalog))
    /\ sortedMarkets' = sortedOf(matchingMarkets')
    /\ quotes' = quotesFor(catalog, sortedMarkets')
    /\ UNCHANGED <<edgeVars, scanVars, lifeVars, otherVars>>
    /\ UNCHANGED <<topicKeywords, catalog, timer, result>>

\* One fetchClobPrice settles.
QuoteSettles(i, answer) ==
    /\ fpc = "awaitQuotes"
    /\ i \in 1..Len(quotes)
    /\ quotes[i].state = "pending"
    /\ quotes' = [quotes EXCEPT ![i].state = "settled",
                                ![i].livePrice = fetchClobPrice(answer)]
    /\ UNCHANGED <<edgeVars, scanVars, lifeVars, otherVars>>
    /\ UNCHANGED <<fpc, topicKeywords, catalog, timer, upstream, allMarkets,
                   matchingMarkets, sortedMarkets, result>>

\* Promise.all resolves: live prices, the fallback for few matches, return.
QuotesJoin ==
    /\ fpc = "awaitQuotes"
    /\ \A i \in 1..Len(quotes) : quotes[i].state # "pending"
    /\ fpc' = "returned"
    /\ sortedMarkets' = withFallback(allMarkets, withLivePrices(sortedMarkets, quotes))
    /\ result' = sortedMarkets'
    /\ UNCHANGED <<edgeVars, scanVars, lifeVars, otherVars>>
    /\ UNCHANGED <<topicKeywords, catalog, timer, upstream, allMarkets,
                   matchingMarkets, quotes>>

FetchNext ==
    \/ FetchStart
    \/ CatalogUnreachable
    \/ DeadlineAborts
    \/ CatalogStatus
    \/ CatalogHeaders
    \/ DeadlinePasses
    \/ \E kind \in BodyFailureKinds : CatalogBodyFails(kind)
    \/ CatalogBody
    \/ \E i \in 1..ENRICH_MARKETS, answer \in QuoteAnswers : QuoteSettles(i, answer)
    \/ QuotesJoin

SpecFetch == FetchInit /\ [][FetchNext]_vars

----------------------------------------------------------------------------
\* Larger catalog responses, for the ranking, the top 10, the 5 quote
\* requests and the fallback: n listings of which the last k contain the
\* keyword "abc", with volumes that are not in array order, behind one
\* listing of a special kind.

MaxRanked == 12

RankedIdAt(i) ==
    <<"r1", "r2", "r3", "r4", "r5", "r6", "r7", "r8", "r9", "r10", "r11", "r12",
      "r13", "r14">>[i]

\* 500, 1000, 200, 700, 1200, 400, 900, 100, 600, 1100, 300, 800, 0, 500
RankedVolume(i) == Num(100 * ((5 * i) % 13))

RankedListing(i, matches) ==
    ListingWithId(
        Listing(IF matches THEN Text("abc") ELSE Text("cc"), NoText, NoText, FALSE,
                YesNo, Prices(1000 * ((i % 9) + 1), 10000), 
                IF i % 4 = 0 THEN NoField ELSE Tokens, RankedVolume(i)),
        RankedIdAt(i))

\* The listing at the head of the response: a closed one or one without
\* prices (both with the highest volume), a match without a volume or with
\* volume 0, a listing that ties with the highest volume.
SpecialKinds == {"none", "closed", "unpriced", "noVolume", "zeroVolume", "tie"}

SpecialListing(kind) ==
    ListingWithId(
        CASE kind = "closed" ->
               Listing(Text("abc"), NoText, NoText, TRUE, YesNo,
                       Prices(2000, 18000), Tokens, Num(5000))
          [] kind = "unpriced" ->
               Listing(Text("abc"), NoText, NoText, FALSE, YesNo, NoField,
                       Tokens, Num(5000))
          [] kind = "noVolume" ->
               Listing(Text("abc"), NoText, NoText, FALSE, YesNo,
                       Prices(2000, 18000), Tokens, Undefined)
          [] kind = "zeroVolume" ->
               Listing(Text("abc"), NoText, NoText, FALSE, YesNo,
                       Prices(2000, 18000), Tokens, Num(0))
          [] kind = "tie" ->
               Listing(Text("cc"), NoText, NoText, FALSE, YesNo,
                       Prices(2000, 18000), Tokens, Num(1200)),
        "s0")

RankedCatalog(n, k, kind) ==
    (IF kind = "none" THEN <<>> ELSE <<SpecialListing(kind)>>)
    \o [i \in 1..n |-> RankedListing(i, i > n - k)]

RankedCatalogs ==
    { RankedCatalog(n, k, kind) :
        n \in 3..MaxRanked, k \in 0..MaxRanked, kind \in SpecialKinds }

RankInit ==
    /\ epc = "unused"
    /\ markets = <<>>
    /\ analyses = <<>>
    /\ signals = <<>>
    /\ ScanIdle
    /\ LifeIdle
    /\ OtherIdle
    /\ fpc = "start"
    /\ topicKeywords = <<Chars("abc")>>
    /\ catalog \in RankedCatalogs
    /\ timer = "unset"
    /\ upstream = NoUpstream
    /\ allMarkets = <<>>
    /\ matchingMarkets = <<>>
    /\ sortedMarkets = <<>>
    /\ quotes = <<>>
    /\ result = <<>>

SpecRank == RankInit /\ [][FetchNext]_vars

----------------------------------------------------------------------------
\* Properties of fetchMarketsForTopic

Returned == fpc = "returned"
ResultIds == {result[j].id : j \in 1..Len(result)}

\* C8: a call makes one catalog request at most, and it returns the empty
\* set whenever the upstream was unreachable, answered a non-success status,
\* delivered an unparsable body, or had not delivered the complete listing
\* set when the 15 s deadline expired.
C8_FailuresAbsorbed ==
    /\ upstream.requests <= 1
    /\ Returned /\ upstream.outcome \in {"unreachable", "status", "timeout"}
                                        \cup BodyFailureKinds
          => result = <<>>
    /\ Returned /\ upstream.bodyLate => result = <<>>

\* The price of a listing's affirmative outcome (the outcome named yes or
\* true; the first outcome when none is so named) is a probability in [0,1].
C9_HasValidYesPrice(listing) ==
    /\ listing.outcomePrices.k = "json"
    /\ listing.outcomes.k \in {"json", "undefined"}
    /\ LET prices == listing.outcomePrices.v
           names == IF listing.outcomes.k = "json" THEN listing.outcomes.v
                    ELSE <<"Yes", "No">>
           named == {i \in 1..Len(names) : names[i] \in {"Yes", "yes", "True", "true"}}
           affirmative == IF named = {} THEN 1
                          ELSE CHOOSE i \in named : \A j \in named : i <= j
       IN  /\ affirmative <= Len(prices)
           /\ prices[affirmative].k = "numstr"
           /\ prices[affirmative].v \in 0..Scale

\* C9: a listing without a valid price for its affirmative outcome is absent
\* from the returned set, among keyword matches and fallback entries alike.
C9_UnpricedAbsent ==
    Returned =>
        \A i \in 1..Len(catalog) :
            ~C9_HasValidYesPrice(catalog[i]) => catalog[i].id \notin ResultIds

\* sub occurs in text
C10_Occurs(sub, text) ==
    \E start \in 0..Len(text) :
        /\ start + Len(sub) <= Len(text)
        /\ \A j \in 1..Len(sub) : text[start + j] = sub[j]

\* The whitespace-separated words of a keyword: its maximal runs without
\* white space.
C10_Words(keyword) ==
    {SubSeq(keyword, i, j) : <<i, j>> \in
        {ij \in (1..Len(keyword)) \X (1..Len(keyword)) :
            /\ ij[1] <= ij[2]
            /\ \A k \in ij[1]..ij[2] : keyword[k] # " "
            /\ ij[1] = 1 \/ keyword[ij[1] - 1] = " "
            /\ ij[2] = Len(keyword) \/ keyword[ij[2] + 1] = " "}}

C10_WholeKeyword(listing, keyword) ==
    C10_Occurs(toLowerCase(keyword), searchText(listing))

C10_EveryWord(listing, keyword) ==
    \A word \in C10_Words(toLowerCase(keyword)) :
        Len(word) > 2 /\ C10_Occurs(word, searchText(listing))

C10_Relevant(listing) ==
    \E k \in 1..Len(topicKeywords) :
        \/ C10_WholeKeyword(listing, topicKeywords[k])
        \/ C10_EveryWord(listing, topicKeywords[k])

C10_InPrimaryMatchSet(listing) ==
    \E j \in 1..Len(matchingMarkets) : matchingMarkets[j].id = listing.id

C10_Filtered == upstream.outcome = "ok"

\* C10 as stated: every listing of the response is in the primary match set
\* iff, for at least one keyword, its lower-cased text contains the whole
\* lower-cased keyword or every word of the keyword is longer than 2 and
\* occurs in the text.
C10_RelevanceRule ==
    C10_Filtered =>
        \A i \in 1..Len(catalog) :
            C10_InPrimaryMatchSet(catalog[i]) <=> C10_Relevant(catalog[i])

\* C10, amended: an open listing for which parseYesPrice yields a price is in
\* the primary match set iff, for at least one keyword, its lower-cased text
\* contains the whole lower-cased keyword or every word of the keyword is
\* longer than 2 and occurs in the text; a closed listing and a listing
\* without such a price are never in the primary match set.
C10_RelevanceRuleOfPricedOpen ==
    C10_Filtered =>
        \A i \in 1..Len(catalog) :
            C10_InPrimaryMatchSet(catalog[i])
                <=> /\ ~catalog[i].closed
                    /\ parseYesPrice(catalog[i]) # Null
                    /\ C10_Relevant(catalog[i])

\* A response was filtered in which one open, priced listing matched by the
\* words of a keyword whose whole phrase it does not contain, and another
\* open, priced listing did not match.
C10_Witness ==
    /\ C10_Filtered
    /\ \E i, j \in 1..Len(catalog) :
          /\ C10_InPrimaryMatchSet(catalog[i])
          /\ \A k \in 1..Len(topicKeywords) :
                ~C10_WholeKeyword(catalog[i], topicKeywords[k])
          /\ isOpenAndPriced(catalog[j])
          /\ ~C10_InPrimaryMatchSet(catalog[j])

----------------------------------------------------------------------------
\* Properties of the ranking and of the fallback (specification SpecRank)

Completed == Returned /\ upstream.outcome = "ok"

CatalogIndex == 1..Len(catalog)

\* The keyword matches: the listings of the primary match set.
C11_Matched == {i \in CatalogIndex : C10_InPrimaryMatchSet(catalog[i])}

\* The keyword matches that have a positive numeric volume.
C11_Ranked ==
    {i \in C11_Matched : catalog[i].volume.k = "num" /\ catalog[i].volume.v > 0}

C11_VolumeOf(i) == IF catalog[i].volume.k = "num" THEN catalog[i].volume.v ELSE 0

\* i is ahead of j by volume (by position in the response among equals)
C11_Ahead(i, j) ==
    \/ C11_VolumeOf(i) > C11_VolumeOf(j)
    \/ C11_VolumeOf(i) = C11_VolumeOf(j) /\ i < j

\* The unfiltered set: the open listings the listing source delivers, i.e.
\* those for which parseYesPrice yields a price.
C11_Unfiltered == {i \in CatalogIndex : isOpenAndPriced(catalog[i])}

C11_Top5 ==
    {i \in C11_Unfiltered :
        Cardinality({j \in C11_Unfiltered : C11_Ahead(j, i)}) < 5}

C11_NoDuplicatesAndCap ==
    /\ \A a, b \in 1..Len(result) : result[a].id = result[b].id => a = b
    /\ Len(result) <= 10

C11_OnlyMatches ==
    \A j \in 1..Len(result) :
        \E i \in C11_Matched : catalog[i].id = result[j].id

----------------------------------------------------------------------------
\* Properties of the enrichment

\* The listing of the response with this id (ids are distinct).
ListingOf(id) == catalog[CHOOSE i \in CatalogIndex : catalog[i].id = id]

\* The quote endpoint's answer is a valid probability.
C12_ValidAnswer(answer) ==
    /\ answer.kind = "price"
    /\ answer.price.k = "numstr"
    /\ answer.price.v >= 0
    /\ answer.price.v <= Scale

C12_Failed(i) == quotes[i].state = "none" \/ quotes[i].livePrice = Null

\* C12: each request that fails (no token id, non-2xx, timeout, value out of
\* range or not a number) leaves its candidate's catalog price as it was,
\* each request that delivered a valid probability leaves its candidate with
\* that price; a failure settles no sibling request, and the call returns
\* every ranked candidate whatever failed.
C12_BestEffortEnrichment ==
    /\ \A answer \in QuoteAnswers :
          fetchClobPrice(answer) # Null <=> C12_ValidAnswer(answer)
    /\ \A i \in 1..Len(quotes) :
          /\ quotes[i].state = "none" <=> getYesTokenId(ListingOf(quotes[i].marketId)) = NoToken
          /\ quotes[i].state # "settled" => quotes[i].livePrice = Null
    /\ Completed =>
          /\ Len(result) >= Len(quotes)
          /\ \A i \in 1..Len(quotes) :
                /\ result[i].id = quotes[i].marketId
                /\ result[i].currentPrice =
                      IF C12_Failed(i)
                      THEN parseYesPrice(ListingOf(quotes[i].marketId))
                      ELSE quotes[i].livePrice

\* Five candidates: one without a token, one whose request failed, and
\* others that ended with a live price different from their catalog price.
C12_Witness ==
    /\ Completed
    /\ Len(quotes) = 5
    /\ \E i, j, k \in 1..5 :
          /\ quotes[i].state = "none"
          /\ quotes[j].state = "settled" /\ quotes[j].livePrice = Null
          /\ quotes[k].livePrice # Null
          /\ result[k].currentPrice # parseYesPrice(ListingOf(quotes[k].marketId))
          /\ result[j].currentPrice = parseYesPrice(ListingOf(quotes[j].marketId))

\* p is a number with 0 <= p <= 1
C13_InUnitInterval(p) == p.k = "num" /\ p.v >= 0 /\ p.v <= Scale

C13_AllInUnitInterval(ms) ==
    \A j \in 1..Len(ms) : C13_InUnitInterval(ms[j].currentPrice)

\* Opinions the judge may give on a candidate, flagged, on either side.
C13_OpinionsOn(id) ==
    {Opinion(id, Num(p), side, Bool(TRUE)) : p \in {0, 50, 100}, side \in {"YES", "NO"}}

\* The signals createSignalsFromAnalysis emits for the returned candidates.
C13_SignalsOfResult ==
    UNION { {s \in {signalFor(TopicId, result, a)} : s # <<>>} :
            a \in UNION {C13_OpinionsOn(id) : id \in ResultIds} }

\* C13: a live quote replaces a candidate's price only if it is a number in
\* [0,1]; at every step of the call and in its result every candidate's
\* currentPrice is in [0,1], and so is the marketPrice of every signal
\* emitted for a returned candidate.
C13_PriceValidity ==
    /\ \A i \in 1..Len(quotes) :
          quotes[i].livePrice # Null => C13_InUnitInterval(quotes[i].livePrice)
    /\ C13_AllInUnitInterval(matchingMarkets)
    /\ C13_AllInUnitInterval(sortedMarkets)
    /\ C13_AllInUnitInterval(result)
    /\ \A j \in 1..Len(result) :
          \/ result[j].currentPrice = parseYesPrice(ListingOf(result[j].id))
          \/ /\ j <= Len(quotes)
             /\ result[j].currentPrice = quotes[j].livePrice
    /\ \A s \in C13_SignalsOfResult : C13_InUnitInterval(s[1].marketPrice)

\* A returned candidate whose price is a live quote, another whose request
\* delivered no valid quote, and signals on both sides of a candidate.
C13_Witness ==
    /\ Completed
    /\ \E i, j \in 1..Len(quotes) :
          /\ quotes[i].livePrice # Null
          /\ result[i].currentPrice # parseYesPrice(ListingOf(result[i].id))
          /\ quotes[j].state = "settled" /\ quotes[j].livePrice = Null
    /\ \E s, t \in C13_SignalsOfResult :
          /\ s[1].side = "YES" /\ t[1].side = "NO"
          /\ s[1].marketId = t[1].marketId
          /\ s[1].marketPrice # t[1].marketPrice

----------------------------------------------------------------------------
\* PATCH /api/signals/:id and POST /api/strategies/execute, next to scans

MaxOps == 3
MaxExecSignals == 2

\* The signal ids the requests name: those of the first two rows stored (an
\* id of no row as long as fewer are stored).
SignalIds == {1, 2}

HTTP_NO_CONTENT == 204
HTTP_BAD_REQUEST == 400

\* updateSignalSchema: z.enum(["active", "dismissed", "added"])
AcceptedStatuses == {"active", "dismissed", "added"}

\* db.update(signals).set({ status }).where(eq(signals.id, signalId))
updateSignalStatus(rows, id, status) ==
    [i \in 1..Len(rows) |->
        IF rows[i].id = id THEN [rows[i] EXCEPT !.status = status] ELSE rows[i]]

\* db.select().from(signals).where(inArray(signals.id, signalIds))
getSignals(rows, ids) ==
    {i \in 1..Len(rows) : \E k \in 1..Len(ids) : rows[i].id = ids[k]}

\* The signalId lists of the execute bodies: none, one or two ids, stored
\* or not, possibly the same id twice.
SignalIdLists ==
    UNION { [1..n -> SignalIds] : n \in 0..MaxExecSignals }

\* The whole PATCH handler: validation, one storage call, the response.
Patch(id, status, ok) ==
    /\ nOps + nScans < MaxOps
    /\ nOps' = nOps + 1
    /\ IF status \notin AcceptedStatuses
       THEN /\ patch' = [id |-> id, status |-> status, code |-> HTTP_BAD_REQUEST]
            /\ UNCHANGED sigRows
       ELSE IF ~ok
       THEN /\ patch' = [id |-> id, status |-> status, code |-> HTTP_ERROR]
            /\ UNCHANGED sigRows
       ELSE /\ patch' = [id |-> id, status |-> status, code |-> HTTP_NO_CONTENT]
            /\ sigRows' = updateSignalStatus(sigRows, id, status)
    /\ UNCHANGED <<edgeVars, fetchVars, otherVars>>
    /\ UNCHANGED <<spc, topicId, judge, response, activeSignalCount, nScans, calls,
                   rowsBefore>>
    /\ UNCHANGED <<exec, strategies, strategySignals>>

ExecFrame ==
    /\ UNCHANGED <<edgeVars, fetchVars, otherVars>>
    /\ UNCHANGED <<spc, topicId, judge, response, nScans, calls, rowsBefore>>
    /\ UNCHANGED patch

ExecResponds(code) == exec' = [exec EXCEPT !.pc = "responded", !.status = code]

\* The request arrives: executeStrategySchema.safeParse(req.body)
ExecRequest(t, ids) ==
    /\ exec.pc = "idle"
    /\ nOps + nScans < MaxOps
    /\ nOps' = nOps + 1
    /\ exec' = IF ids = <<>>
               THEN [NoExec EXCEPT !.pc = "responded", !.status = HTTP_BAD_REQUEST]
               ELSE [NoExec EXCEPT !.pc = "getTopic", !.topicId = t, !.signalIds = ids]
    /\ ExecFrame
    /\ UNCHANGED <<sigRows, activeSignalCount, strategies, strategySignals>>

\* await storage.getTopic(topicId)
ExecGetTopic(ok) ==
    /\ exec.pc = "getTopic"
    /\ IF ~ok THEN ExecResponds(HTTP_ERROR)
       ELSE IF exec.topicId \notin Topics THEN ExecResponds(HTTP_NOT_FOUND)
       ELSE exec' = [exec EXCEPT !.pc = "getSignals"]
    /\ ExecFrame
    /\ UNCHANGED <<sigRows, activeSignalCount, strategies, strategySignals, nOps>>

\* await storage.getSignals(signalIds); existingSignals.length !== signalIds.length
ExecGetSignals(ok) ==
    /\ exec.pc = "getSignals"
    /\ IF ~ok THEN ExecResponds(HTTP_ERROR)
       ELSE IF Cardinality(getSignals(sigRows, exec.signalIds)) # Len(exec.signalIds)
       THEN ExecResponds(HTTP_BAD_REQUEST)
       ELSE exec' = [exec EXCEPT !.pc = "createStrategy"]
    /\ ExecFrame
    /\ UNCHANGED <<sigRows, activeSignalCount, strategies, strategySignals, nOps>>

\* await storage.createStrategy({...})
ExecCreateStrategy(ok) ==
    /\ exec.pc = "createStrategy"
    /\ IF ~ok THEN ExecResponds(HTTP_ERROR) /\ UNCHANGED strategies
       ELSE /\ strategies' = Append(strategies,
                   [id |-> Len(strategies) + 1, topicId |-> exec.topicId,
                    status |-> "draft", txHash |-> FALSE])
            /\ exec' = [exec EXCEPT !.pc = "createStrategySignal",
                                    !.strategyId = Len(strategies) + 1,
                                    !.idx = 1]
    /\ ExecFrame
    /\ UNCHANGED <<sigRows, activeSignalCount, strategySignals, nOps>>

\* await storage.createStrategySignal({...}) of the signal at hand
ExecCreateStrategySignal(ok) ==
    /\ exec.pc = "createStrategySignal"
    /\ IF ~ok THEN ExecResponds(HTTP_ERROR) /\ UNCHANGED strategySignals
       ELSE /\ strategySignals' = Append(strategySignals,
                   [strategyId |-> exec.strategyId,
                    signalId |-> exec.signalIds[exec.idx]])
            /\ exec' = [exec EXCEPT !.pc = "updateSignalStatus"]
    /\ ExecFrame
    /\ UNCHANGED <<sigRows, activeSignalCount, strategies, nOps>>

\* await storage.updateSignalStatus(signal.signalId, "added"); next signal
ExecUpdateSignalStatus(ok) ==
    /\ exec.pc = "updateSignalStatus"
    /\ IF ~ok THEN ExecResponds(HTTP_ERROR) /\ UNCHANGED sigRows
       ELSE /\ sigRows' = updateSignalStatus(sigRows, exec.signalIds[exec.idx], "added")
            /\ exec' = IF exec.idx < Len(exec.signalIds)
                       THEN [exec EXCEPT !.pc = "createStrategySignal", !.idx = @ + 1]
                       ELSE [exec EXCEPT !.pc = "updateStrategyStatus"]
    /\ ExecFrame
    /\ UNCHANGED <<activeSignalCount, strategies, strategySignals, nOps>>

\* await storage.updateStrategyStatus(strategy.id, "executed", demoTxHash)
ExecUpdateStrategyStatus(ok) ==
    /\ exec.pc = "updateStrategyStatus"
    /\ IF ~ok THEN ExecResponds(HTTP_ERROR) /\ UNCHANGED strategies
       ELSE /\ strategies' = [strategies EXCEPT ![exec.strategyId].status = "executed",
                                                ![exec.strategyId].txHash = TRUE]
            /\ exec' = [exec EXCEPT !.pc = "updateTopicSignalCount"]
    /\ ExecFrame
    /\ UNCHANGED <<sigRows, activeSignalCount, strategySignals, nOps>>

\* await storage.updateTopicSignalCount(topicId); res.json({...})
ExecUpdateCount(ok) ==
    /\ exec.pc = "updateTopicSignalCount"
    /\ IF ~ok THEN ExecResponds(HTTP_ERROR) /\ UNCHANGED activeSignalCount
       ELSE /\ activeSignalCount' =
                  [activeSignalCount EXCEPT
                      ![exec.topicId] = Cardinality(activeSignalsOf(sigRows, exec.topicId))]
            /\ ExecResponds(HTTP_OK)
    /\ ExecFrame
    /\ UNCHANGED <<sigRows, strategies, strategySignals, nOps>>

\* The response is sent; the handler's locals are gone.
ExecEnds ==
    /\ exec.pc = "responded"
    /\ exec' = NoExec
    /\ ExecFrame
    /\ UNCHANGED <<sigRows, activeSignalCount, strategies, strategySignals, nOps>>

\* The scans that run next to PATCH and execute requests: one candidate; the
\* judge fails or flags it with a material edge.
LifeMarketBatches == {ms \in ScanMarketBatches : Len(ms) = 1}

LifeJudgeAnswers ==
    { [kind |-> "apiError", analyses |-> <<>>],
      [kind |-> "json", analyses |-> <<Opinion("m1", Num(40), "YES", Bool(TRUE))>>] }

PatchStatuses == AcceptedStatuses \cup {"bogus"}

LifeInit == ScanInit

LifeScanRequest(t) ==
    /\ nOps + nScans < MaxOps
    /\ ScanRequest(t)

LifeNext ==
    \/ \E t \in Topics : LifeScanRequest(t)
    \/ GetTopicReturns
    \/ GetTopicFails
    \/ \E ms \in LifeMarketBatches : FetchReturns(ms)
    \/ \E answer \in LifeJudgeAnswers : JudgeAnswersScan(answer)
    \/ CreateSignalsReturns
    \/ CreateSignalsFails
    \/ UpdateCountReturns
    \/ UpdateCountFails
    \/ ScanEnds
    \/ \E id \in SignalIds, status \in PatchStatuses, ok \in BOOLEAN :
          Patch(id, status, ok)
    \/ \E t \in Topics \cup {"tX"}, ids \in SignalIdLists : ExecRequest(t, ids)
    \/ \E ok \in BOOLEAN : ExecGetTopic(ok)
    \/ \E ok \in BOOLEAN : ExecGetSignals(ok)
    \/ \E ok \in BOOLEAN : ExecCreateStrategy(ok)
    \/ \E ok \in BOOLEAN : ExecCreateStrategySignal(ok)
    \/ \E ok \in BOOLEAN : ExecUpdateSignalStatus(ok)
    \/ \E ok \in BOOLEAN : ExecUpdateStrategyStatus(ok)
    \/ \E ok \in BOOLEAN : ExecUpdateCount(ok)
    \/ ExecEnds

SpecLife == LifeInit /\ [][LifeNext]_vars

----------------------------------------------------------------------------
\* Properties of the stored signals (specification SpecLife)

TerminalStatuses == {"dismissed", "added"}

\* C14: every step stores new signals with status active, and leaves the
\* status of a signal that is dismissed or added as it is, whichever
\* operation takes the step (a PATCH with an accepted status, an execute
\* request naming the signal, a scan).
C14_TerminalLifecycle ==
    [][ /\ Len(sigRows') >= Len(sigRows)
        /\ \A i \in (Len(sigRows) + 1)..Len(sigRows') : sigRows'[i].status = "active"
        /\ \A i \in 1..Len(sigRows) :
              sigRows[i].status \in TerminalStatuses
                  => sigRows'[i].status = sigRows[i].status ]_vars

\* A step of the scan handler
C15_ScanStep == spc' # spc

\* The step in which await storage.createSignals(signalInputs) resolves
C15_InsertStep == spc = "createSignals" /\ spc' = "updateTopicSignalCount"

\* The step in which updateTopicSignalCount selects the topic's active rows
C15_CountStep == calls'.updateTopicSignalCount > calls.updateTopicSignalCount

C15_RowsKept ==
    /\ Len(sigRows') >= Len(sigRows)
    /\ SubSeq(sigRows', 1, Len(sigRows)) = sigRows

C15_OnlyEmittedInserted ==
    IF C15_InsertStep
    THEN /\ Len(sigRows') = Len(sigRows) + Len(signals)
         /\ \A k \in 1..Len(signals) :
               /\ sigRows'[Len(sigRows) + k].data = signals[k]
               /\ sigRows'[Len(sigRows) + k].status = "active"
               /\ \A i \in 1..Len(sigRows) :
                     sigRows[i].id # sigRows'[Len(sigRows) + k].id
    ELSE sigRows' = sigRows

\* C15 as stated: no step of a scan reads, updates or deletes a stored
\* signal row; every stored row keeps its field values and its status, and
\* the rows a scan adds are exactly the signals it emitted.
C15_AppendOnlyNeverReads ==
    [][ C15_ScanStep =>
          /\ C15_RowsKept
          /\ C15_OnlyEmittedInserted
          /\ ~(C15_CountStep /\ rowsBefore.rows # <<>>) ]_vars

\* C15, amended: no step of a scan updates or deletes a stored signal row;
\* every stored row keeps its field values and its status, and the rows a
\* scan adds are exactly the signals it emitted.  Stored rows are read by
\* the last storage call of a scan only, which counts the topic's active
\* signals.
C15_AppendOnly ==
    [][ C15_ScanStep =>
          /\ C15_RowsKept
          /\ C15_OnlyEmittedInserted
          /\ C15_CountStep => spc = "updateTopicSignalCount" ]_vars

\* A second scan has stored the opportunity of a first one again, whose
\* signal was dismissed in between and still is.
C15_Witness ==
    /\ spc = "responded"
    /\ response.message = MsgFound
    /\ Len(sigRows) = 2
    /\ sigRows[1].data = sigRows[2].data
    /\ sigRows[1].id # sigRows[2].id
    /\ sigRows[1].status = "dismissed"
    /\ sigRows[2].status = "active"

----------------------------------------------------------------------------
\* More properties of createSignalsFromAnalysis (specification SpecEdge)

\* C16: the signals emitted for a judge response hold at most one signal
\* per candidate id, and no more signals than there are candidates.
C16_OneSignalPerCandidate ==
    epc = "done" =>
        /\ \A i, j \in 1..Len(signals) :
              signals[i].marketId = signals[j].marketId => i = j
        /\ Len(signals) <= Len(markets)

----------------------------------------------------------------------------
\* More properties of the scan route (specification Spec)

\* C17: when the judge's answer is valid JSON that violates the response
\* schema, the scan answers with the hard error and stores no signal; it
\* does not answer "No significant mispricings detected".
C17_SchemaViolationAborts ==
    (Responded /\ judge.kind \in JudgeSchemaViolationKinds) =>
        /\ response = Reply(HTTP_ERROR, MsgFailed, 0)
        /\ response.message # MsgNoMispricings
        /\ calls.createSignals = 0
        /\ sigRows = rowsBefore.rows

----------------------------------------------------------------------------
\* More properties of the ranking (specification SpecRank)

C18_HasNumericVolume(m) == m.volume.k = "num"

\* The entries of ms are in descending order of their numeric volume.
C18_Descending(ms) ==
    \A a, b \in 1..Len(ms) :
        a < b => /\ C18_HasNumericVolume(ms[a])
                 /\ C18_HasNumericVolume(ms[b])
                 /\ ms[a].volume.v >= ms[b].volume.v

\* The ids of the keyword matches, of those among them that are ranked, and
\* the number of ranked matches the result keeps.
C18_MatchedIds == {catalog[i].id : i \in C11_Matched}
C18_RankedIds == {catalog[i].id : i \in C11_Ranked}
C18_Kept == IF Cardinality(C11_Ranked) < 10 THEN Cardinality(C11_Ranked) ELSE 10

\* C18 as stated: the returned list is in descending order of volume and
\* has at most 10 entries; no keyword match without a numeric volume is in
\* it; of more than 10 matches the 10 with the highest volume are kept.
C18_SortedTop10 ==
    Completed =>
        /\ C18_Descending(result)
        /\ Len(result) <= 10
        /\ \A j \in 1..Len(result) :
              result[j].id \in C18_MatchedIds => C18_HasNumericVolume(result[j])
        /\ Cardinality(C11_Matched) > 10 =>
              \A i \in C11_Matched :
                  catalog[i].id \notin ResultIds =>
                      \A j \in 1..Len(result) :
                          result[j].volume.v >= C11_VolumeOf(i)

\* C18, amended: the returned list has at most 10 entries.  It begins with
\* the ranked keyword matches (those with a numeric volume > 0), at most
\* 10 of them, in descending order of volume, and a ranked match that is
\* left out has no higher volume than any that is kept.  A keyword match
\* without a numeric volume, or with volume 0, is not among them.  What
\* follows are entries of the low-yield fallback, present only with fewer
\* than 3 ranked matches, in descending order of volume among themselves
\* (a missing volume counting as 0).
C18_RankedThenFallback ==
    Completed =>
        /\ Len(result) <= 10
        /\ Len(result) >= C18_Kept
        /\ C18_Descending(SubSeq(result, 1, C18_Kept))
        /\ \A j \in 1..C18_Kept : result[j].id \in C18_RankedIds
        /\ \A i \in C11_Ranked :
              catalog[i].id \notin ResultIds =>
                  \A j \in 1..C18_Kept : result[j].volume.v >= C11_VolumeOf(i)
        /\ Len(result) > C18_Kept => Cardinality(C11_Ranked) < 3
        /\ \A a, b \in (C18_Kept + 1)..Len(result) :
              a < b => volumeOrZero(result[a]) >= volumeOrZero(result[b])

\* More than 10 ranked matches: 10 are returned, not in the order of the
\* response, and a ranked match is left out.
C18_Witness ==
    /\ Completed
    /\ Cardinality(C11_Ranked) > 10
    /\ Len(result) = 10
    /\ \E i \in C11_Ranked : catalog[i].id \notin ResultIds
    /\ \E i, j \in C11_Ranked :
          /\ i < j
          /\ \E a, b \in 1..10 :
                a > b /\ result[a].id = catalog[i].id /\ result[b].id = catalog[j].id

C19_CandidateIds(ms) == {ms[j].id : j \in 1..Len(ms)}

\* The relevance filter runs on the complete listing set.
C19_FilterAfterFetch ==
    matchingMarkets' # matchingMarkets => allMarkets' = catalog /\ fpc = "awaitBody"

\* Once quote requests are issued the candidate set no longer changes.
C19_CandidatesFinalBeforeQuotes ==
    fpc = "awaitQuotes" =>
        C19_CandidateIds(sortedMarkets') = C19_CandidateIds(sortedMarkets)

\* fetchMarketsForTopic returns its candidates (and the route then calls the
\* judge) only when every quote request has settled.
C19_JudgeAfterQuotes ==
    fpc' = "returned" /\ upstream'.outcome = "ok" =>
        \A i \in 1..Len(quotes') : quotes'[i].state # "pending"

\* C19: the stages of a scan run one after the other, each on the complete
\* output of the one before: listing fetch, relevance filter with its
\* fallback merge, price enrichment, judge.  The candidate set is final
\* before the first quote request, and the candidates are handed to the
\* judge only after every quote request has settled.
C19_LinearStages ==
    [][ /\ C19_FilterAfterFetch
        /\ C19_CandidatesFinalBeforeQuotes
        /\ C19_JudgeAfterQuotes ]_vars

----------------------------------------------------------------------------
\* Termination of fetchMarketsForTopic.  The steps the process takes by
\* itself are fair: it starts the request, an armed 15 s timer fires, time
\* passes, the armed 3 s timer of a pending quote request fires, and
\* Promise.all resolves once every quote request settled.  No step of an
\* upstream is fair: the catalog and the quote endpoint may stay silent.

QuoteDeadline == [kind |-> "timeout", price |-> Garbage]

FetchFairness ==
    /\ WF_vars(FetchStart)
    /\ WF_vars(DeadlineAborts)
    /\ WF_vars(DeadlinePasses)
    /\ \A i \in 1..ENRICH_MARKETS : WF_vars(QuoteSettles(i, QuoteDeadline))
    /\ WF_vars(QuotesJoin)

SpecFetchFair == FetchInit /\ [][FetchNext]_vars /\ FetchFairness

\* C20: every outbound call has a deadline of its own, so a call that was
\* started always ends with a result, also when the upstream never answers
\* or stalls after its response headers.
C20_AlwaysTerminates == (fpc = "awaitHeaders") ~> (fpc = "returned")

----------------------------------------------------------------------------
\* Fan-out of the enrichment

\* The quote requests that were issued.
C21_Requests == {i \in 1..Len(quotes) : quotes[i].state # "none"}

\* The 5 keyword-matched candidates of highest volume.
C21_Top5Ranked ==
    {i \in C11_Ranked : Cardinality({j \in C11_Ranked : C11_Ahead(j, i)}) < 5}

C21_Top5RankedIds == {catalog[i].id : i \in C21_Top5Ranked}

\* C21: at most 5 quote requests are issued, each for one of the 5
\* keyword-matched candidates of highest volume; every other returned
\* candidate (rank 6 to 10, or added by the fallback) has its catalog price.
C21_BoundedFanOut ==
    LET top5 == C21_Top5RankedIds
    IN  /\ Cardinality(C21_Requests) <= 5
        /\ \A i \in C21_Requests : quotes[i].marketId \in top5
        /\ Completed =>
              \A j \in 1..Len(result) :
                  result[j].id \notin top5 =>
                      result[j].currentPrice = parseYesPrice(ListingOf(result[j].id))

\* More than 5 ranked candidates, 5 quote requests of which one changed a
\* price, and a candidate of rank 6 or more in the result.
C21_Witness ==
    /\ Completed
    /\ Len(quotes) = 5
    /\ Cardinality(C21_Requests) >= 3
    /\ \E k \in 1..5 :
          /\ quotes[k].livePrice # Null
          /\ result[k].currentPrice # parseYesPrice(ListingOf(result[k].id))
    /\ Len(result) >= 7
    /\ \E j \in 6..Len(result) : result[j].id \notin C21_Top5RankedIds

----------------------------------------------------------------------------
\* Writes of the price fields

\* A step of one quote request, taken while the requests are in flight.
C22_RequestStep == fpc = "awaitQuotes" /\ fpc' = "awaitQuotes"

\* The step in which the results of the requests are applied.
C22_JoinStep == fpc = "awaitQuotes" /\ fpc' = "returned"

\* The requests issued for the candidate with this id that delivered a price.
C22_PricedRequestsOf(id) ==
    {k \in 1..Len(quotes) : quotes[k].marketId = id /\ quotes[k].livePrice # Null}

\* C22: no step of a quote request writes a price, and a request settles
\* once; the prices are written in the one step that follows the last
\* request, each candidate's with the result of its own request and of no
\* other, whatever the order in which the requests completed.
C22_NoConcurrentPriceWrite ==
    [][ /\ C22_RequestStep =>
              /\ sortedMarkets' = sortedMarkets
              /\ \A i \in 1..Len(quotes) :
                    quotes[i].state # "pending" => quotes'[i] = quotes[i]
        /\ C22_JoinStep =>
              \A i \in 1..Len(sortedMarkets) :
                  LET own == C22_PricedRequestsOf(sortedMarkets[i].id)
                  IN  /\ Cardinality(own) <= 1
                      /\ sortedMarkets'[i].id = sortedMarkets[i].id
                      /\ sortedMarkets'[i].currentPrice =
                            IF own = {} THEN sortedMarkets[i].currentPrice
                            ELSE quotes[CHOOSE k \in own : TRUE].livePrice
      ]_vars

\* Two requests delivered a price and one between them failed: each of the
\* two candidates ended with the price of its own request, which differs
\* from its catalog price, and the third kept its catalog price.
C22_Witness ==
    /\ Completed
    /\ \E i, j, k \in 1..Len(quotes) :
          /\ i < k /\ k < j
          /\ quotes[i].livePrice # Null
          /\ quotes[j].livePrice # Null
          /\ quotes[k].state = "settled" /\ quotes[k].livePrice = Null
          /\ result[i].currentPrice = quotes[i].livePrice
          /\ result[j].currentPrice = quotes[j].livePrice
          /\ result[i].currentPrice # parseYesPrice(ListingOf(result[i].id))
          /\ result[j].currentPrice # parseYesPrice(ListingOf(result[j].id))
          /\ result[k].currentPrice = parseYesPrice(ListingOf(result[k].id))

----------------------------------------------------------------------------
\* fetchMarketBySlug and marketCache

MaxLookups == 3
MaxTicks == 3

\* const CACHE_TTL = 60000
CACHE_TTL == 60000
\* The clock is read at multiples of half the TTL.
Tick == CACHE_TTL \div 2

NoSlug == ""
NoMarket == [slug |-> NoSlug, price |-> 0, outcomes |-> "none"]

\* A market of the venue's answer: its slug (or none), its YES price (one
\* of two quotations), and whether its outcomes field parses as JSON.
VenueMarkets ==
    {[slug |-> s, price |-> p, outcomes |-> o] :
        s \in Slugs \cup {NoSlug}, p \in {1, 2}, o \in {"json", "broken"}}

\* What the venue can do with one request: fetch rejects (network error or
\* the 10 s AbortSignal), a non-2xx status, a body that is not JSON, an
\* empty list, or a list whose first entry is a market.
VenueAnswers ==
    {[kind |-> k, market |-> NoMarket] : k \in {"reject", "status", "notJson", "empty"}}
    \cup {[kind |-> "found", market |-> m] : m \in VenueMarkets}

\* parseMarketData(market, slug): { slug: market.slug || slug, yesPrice, .. }
parseMarketData(market, slug) ==
    [slug |-> IF market.slug = NoSlug THEN slug ELSE market.slug,
     yesPrice |-> market.price]

\* cached && Date.now() - cached.timestamp < CACHE_TTL
\* An entry is served whatever its age.
isFresh_Always(cached, time) == cached # NoEntry

isFresh(cached, time) == cached # NoEntry /\ time - cached.timestamp < CACHE_TTL

\* marketCache.set(slug, { data, timestamp: Date.now() })
cacheSet(cache, slug, data, time) ==
    [cache EXCEPT ![slug] = [data |-> data, timestamp |-> time]]

CacheInit ==
    /\ epc = "unused"
    /\ markets = <<>>
    /\ analyses = <<>>
    /\ signals = <<>>
    /\ ScanIdle
    /\ FetchIdle
    /\ LifeIdle
    /\ CacheIdle
    /\ SubIdle
    /\ RegistryIdle

CacheFrame == UNCHANGED <<edgeVars, scanVars, fetchVars, lifeVars, subVars, regVars>>

LookupReturns(c, value) ==
    lookup' = [lookup EXCEPT ![c].pc = "returned", ![c].result = value]

\* fetchMarketBySlug(slug) is called: the cache check, then the first fetch.
LookupCall(c, slug) ==
    /\ lookup[c].pc = "idle"
    /\ nLookups < MaxLookups
    /\ nLookups' = nLookups + 1
    /\ IF isFresh(marketCache[slug], now)
       THEN lookup' = [lookup EXCEPT ![c] = [pc |-> "returned", slug |-> slug,
                                             requests |-> 0,
                                             result |-> marketCache[slug].data]]
       ELSE lookup' = [lookup EXCEPT ![c] = [pc |-> "awaitMarket", slug |-> slug,
                                             requests |-> 1, result |-> Null]]
    /\ UNCHANGED <<marketCache, now>>
    /\ CacheFrame

\* The request /markets?slug= settles.
MarketAnswer(c, answer) ==
    /\ lookup[c].pc = "awaitMarket"
    /\ IF answer.kind \in {"reject", "notJson"}
          \/ (answer.kind = "found" /\ answer.market.outcomes = "broken")
       THEN LookupReturns(c, Null) /\ UNCHANGED marketCache
       ELSE IF answer.kind = "found"
       THEN LET res == parseMarketData(answer.market, lookup[c].slug)
            IN  /\ marketCache' = cacheSet(marketCache, lookup[c].slug, res, now)
                /\ LookupReturns(c, res)
       ELSE /\ lookup' = [lookup EXCEPT ![c].pc = "awaitEvent", ![c].requests = 2]
            /\ UNCHANGED marketCache
    /\ UNCHANGED <<now, nLookups>>
    /\ CacheFrame

\* The request /events?slug= settles.
EventAnswer(c, answer) ==
    /\ lookup[c].pc = "awaitEvent"
    /\ IF answer.kind # "found" \/ answer.market.outcomes = "broken"
       THEN LookupReturns(c, Null) /\ UNCHANGED marketCache
       ELSE LET primaryMarket == answer.market
                slug == lookup[c].slug
                res == parseMarketData(primaryMarket, slug)
                first == cacheSet(marketCache, slug, res, now)
            IN  /\ marketCache' =
                      IF primaryMarket.slug # NoSlug /\ primaryMarket.slug # slug
                      THEN cacheSet(first, primaryMarket.slug, res, now)
                      ELSE first
                /\ LookupReturns(c, res)
    /\ UNCHANGED <<now, nLookups>>
    /\ CacheFrame

\* The caller has its answer.
LookupEnds(c) ==
    /\ lookup[c].pc = "returned"
    /\ lookup' = [lookup EXCEPT ![c] = NoLookup]
    /\ UNCHANGED <<marketCache, now, nLookups>>
    /\ CacheFrame

\* Time passes.
ClockTick ==
    /\ now < MaxTicks * Tick
    /\ now' = now + Tick
    /\ UNCHANGED <<marketCache, lookup, nLookups>>
    /\ CacheFrame

CacheNext ==
    \/ \E c \in CallIds, slug \in Slugs : LookupCall(c, slug)
    \/ \E c \in CallIds, answer \in VenueAnswers : MarketAnswer(c, answer)
    \/ \E c \in CallIds, answer \in VenueAnswers : EventAnswer(c, answer)
    \/ \E c \in CallIds : LookupEnds(c)
    \/ ClockTick

SpecCache == CacheInit /\ [][CacheNext]_vars

\* Call c begins in this step.
C23_Begins(c) == lookup[c].pc = "idle" /\ lookup'[c].pc # "idle"

\* Call c returns in this step.
C23_Returns(c) == lookup[c].pc # "returned" /\ lookup'[c].pc = "returned"

\* An entry for the slug exists whose age is less than 60000 ms.
C23_FreshEntry(slug) ==
    /\ marketCache[slug] # NoEntry
    /\ now - marketCache[slug].timestamp < CACHE_TTL

\* C23: a call is answered from the cache, without a request to the venue,
\* exactly if an entry for the slug exists whose age is < 60000 ms, and then
\* with that entry's data; a call that returns null stores nothing; a call
\* that fetched a market stores it under the slug with the current time; and
\* nothing else writes the cache.
C23_TTLCache ==
    [][ /\ \A c \in CallIds :
              /\ C23_Begins(c) =>
                    LET slug == lookup'[c].slug
                        fromCache == /\ lookup'[c].pc = "returned"
                                     /\ lookup'[c].requests = 0
                    IN  /\ fromCache <=> C23_FreshEntry(slug)
                        /\ fromCache => lookup'[c].result = marketCache[slug].data
                        /\ ~fromCache => lookup'[c].requests >= 1
                        /\ marketCache' = marketCache
              /\ C23_Returns(c) /\ lookup'[c].result = Null =>
                    marketCache' = marketCache
              /\ C23_Returns(c) /\ lookup'[c].requests >= 1
                               /\ lookup'[c].result # Null =>
                    marketCache'[lookup'[c].slug] =
                        [data |-> lookup'[c].result, timestamp |-> now']
        /\ marketCache' # marketCache =>
              \E c \in CallIds : /\ C23_Returns(c)
                                 /\ lookup'[c].requests >= 1
                                 /\ lookup'[c].result # Null
      ]_vars

\* One call was answered from the cache, and a later call for the same slug
\* went to the venue because the entry was exactly 60000 ms old.
C23_Witness ==
    \E c, d \in CallIds :
        /\ lookup[c].pc = "returned"
        /\ lookup[c].requests = 0
        /\ lookup[c].result # Null
        /\ lookup[d].pc = "awaitMarket"
        /\ lookup[d].slug = lookup[c].slug
        /\ marketCache[lookup[d].slug] # NoEntry
        /\ now - marketCache[lookup[d].slug].timestamp = CACHE_TTL

----------------------------------------------------------------------------
\* Closed listings

C24_ClosedIds == {catalog[i].id : i \in {k \in CatalogIndex : catalog[k].closed}}

\* C24: no closed listing is in the value fetchMarketsForTopic returns,
\* neither as a keyword match nor as a fallback entry.
C24_ClosedExcluded == Returned => ResultIds \cap C24_ClosedIds = {}

\* The response holds a closed listing that contains the keyword and has
\* more volume than any other; the call returned keyword matches and
\* fallback entries, and the closed listing is in neither.
C24_Witness ==
    /\ Completed
    /\ \E i \in CatalogIndex :
          /\ catalog[i].closed
          /\ matchesKeywords(catalog[i], topicKeywords)
          /\ parseYesPrice(catalog[i]) # Null
          /\ \A j \in CatalogIndex \ {i} : C11_Ahead(i, j)
    /\ \E j \in 1..Len(result) : result[j].id \in C18_RankedIds
    /\ \E j \in 1..Len(result) : result[j].id \notin C18_MatchedIds

----------------------------------------------------------------------------
\* The topics' counters

\* No scan and no execute request is in flight (a PATCH is one step).
C25_AtRest == spc = "idle" /\ exec.pc = "idle"

C25_ActiveRows(t) ==
    {i \in 1..Len(sigRows) : sigRows[i].data.topicId = t /\ sigRows[i].status = "active"}

\* C25: when every operation has completed, each topic's activeSignalCount
\* is the number of stored signals of the topic whose status is active.
C25_CountMatchesActiveRows ==
    C25_AtRest =>
        \A t \in Topics : activeSignalCount[t] = Cardinality(C25_ActiveRows(t))

----------------------------------------------------------------------------
\* Opinions without a numeric probability

C26_HasNumber(a) == a.aiProbability.k = "num"

\* C26: opinions whose aiProbability is missing or not a number yield no
\* signal, and every signal's edgeBps is an integer of at least 300.
C26_NumericProbabilityRequired ==
    epc = "done" =>
        /\ (\A i \in 1..Len(analyses) : ~C26_HasNumber(analyses[i])) => signals = <<>>
        /\ \A i \in 1..Len(signals) :
              signals[i].edgeBps.k = "num" /\ signals[i].edgeBps.v >= MIN_EDGE_BPS

----------------------------------------------------------------------------
\* The side a signal records

\* C27: every emitted signal records side 'YES' or 'NO', and a signal whose
\* side is not 'NO' carries the YES price of its candidate, not 1 - yesPrice.
C27_RecordedSidePrices ==
    epc = "done" =>
        \A i \in 1..Len(signals) :
            /\ signals[i].side \in {"YES", "NO"}
            /\ signals[i].side # "NO" =>
                  \E m \in Batch : /\ m.id = signals[i].marketId
                                   /\ signals[i].marketPrice = m.currentPrice

----------------------------------------------------------------------------
\* POST /api/topics/:id/subscribe

MaxSubscribes == 3

HTTP_CREATED == 201

NoAddress == ""
UnknownTopic == "tX"

\* storage.getSubscription: the first row of the user and the topic, if any
getSubscription(rows, userAddress, t) ==
    LET hits == {i \in 1..Len(rows) :
                    rows[i].userAddress = userAddress /\ rows[i].topicId = t}
    IN  IF hits = {} THEN Undefined
        ELSE rows[CHOOSE i \in hits : \A j \in hits : i <= j]

\* storage.createSubscription: insert ... returning, with a fresh id
createSubscription(rows, userAddress, t) ==
    Append(rows, [id |-> Len(rows) + 1, userAddress |-> userAddress, topicId |-> t])

SubInit ==
    /\ epc = "unused"
    /\ markets = <<>>
    /\ analyses = <<>>
    /\ signals = <<>>
    /\ ScanIdle
    /\ FetchIdle
    /\ LifeIdle
    /\ CacheIdle
    /\ SubIdle
    /\ RegistryIdle

SubFrame == UNCHANGED <<edgeVars, scanVars, fetchVars, lifeVars, cacheVars, regVars>>

SubResponds(r, code, body) ==
    subReq' = [subReq EXCEPT ![r].pc = "responded", ![r].status = code,
                             ![r].body = body]

\* The request arrives: subscribeSchema.safeParse(req.body)
SubscribeRequest(r, userAddress, t) ==
    /\ subReq[r].pc = "idle"
    /\ nSubs < MaxSubscribes
    /\ nSubs' = nSubs + 1
    /\ IF userAddress = NoAddress
       THEN subReq' = [subReq EXCEPT ![r] = [pc |-> "responded",
                           userAddress |-> userAddress, topicId |-> t,
                           status |-> HTTP_BAD_REQUEST, body |-> Null]]
       ELSE subReq' = [subReq EXCEPT ![r] = [pc |-> "getTopic",
                           userAddress |-> userAddress, topicId |-> t,
                           status |-> 0, body |-> Null]]
    /\ UNCHANGED topicSubscriptions
    /\ SubFrame

\* await storage.getTopic(topicId)
SubGetTopic(r, ok) ==
    /\ subReq[r].pc = "getTopic"
    /\ IF ~ok THEN SubResponds(r, HTTP_ERROR, Null)
       ELSE IF subReq[r].topicId \notin Topics
       THEN SubResponds(r, HTTP_NOT_FOUND, Null)
       ELSE subReq' = [subReq EXCEPT ![r].pc = "getSubscription"]
    /\ UNCHANGED <<topicSubscriptions, nSubs>>
    /\ SubFrame

\* await storage.getSubscription(userAddress, topicId)
SubGetSubscription(r, ok) ==
    /\ subReq[r].pc = "getSubscription"
    /\ LET existing == getSubscription(topicSubscriptions, subReq[r].userAddress,
                                       subReq[r].topicId)
       IN  IF ~ok THEN SubResponds(r, HTTP_ERROR, Null)
           ELSE IF existing # Undefined THEN SubResponds(r, HTTP_OK, existing)
           ELSE subReq' = [subReq EXCEPT ![r].pc = "createSubscription"]
    /\ UNCHANGED <<topicSubscriptions, nSubs>>
    /\ SubFrame

\* await storage.createSubscription({ userAddress, topicId })
SubCreateSubscription(r, ok) ==
    /\ subReq[r].pc = "createSubscription"
    /\ IF ~ok
       THEN SubResponds(r, HTTP_ERROR, Null) /\ UNCHANGED topicSubscriptions
       ELSE /\ topicSubscriptions' =
                  createSubscription(topicSubscriptions, subReq[r].userAddress,
                                     subReq[r].topicId)
            /\ SubResponds(r, HTTP_CREATED,
                           topicSubscriptions'[Len(topicSubscriptions')])
    /\ UNCHANGED nSubs
    /\ SubFrame

\* The response is sent.
SubEnds(r) ==
    /\ subReq[r].pc = "responded"
    /\ subReq' = [subReq EXCEPT ![r] = NoSubReq]
    /\ UNCHANGED <<topicSubscriptions, nSubs>>
    /\ SubFrame

SubNext ==
    \/ \E r \in SubReqIds, u \in Users \cup {NoAddress}, t \in {"t1", UnknownTopic} :
          SubscribeRequest(r, u, t)
    \/ \E r \in SubReqIds, ok \in BOOLEAN : SubGetTopic(r, ok)
    \/ \E r \in SubReqIds, ok \in BOOLEAN : SubGetSubscription(r, ok)
    \/ \E r \in SubReqIds, ok \in BOOLEAN : SubCreateSubscription(r, ok)
    \/ \E r \in SubReqIds : SubEnds(r)

SpecSub == SubInit /\ [][SubNext]_vars

\* C28: the table never holds two rows of one user and one topic, and a
\* subscribe request of a user who has a row for the topic is answered with
\* that row and adds none.
C28_SubscribeIdempotent ==
    /\ \A i, j \in 1..Len(topicSubscriptions) :
          ( /\ topicSubscriptions[i].userAddress = topicSubscriptions[j].userAddress
            /\ topicSubscriptions[i].topicId = topicSubscriptions[j].topicId )
          => i = j
    /\ \A r \in SubReqIds :
          subReq[r].pc = "responded" /\ subReq[r].status = HTTP_OK =>
              /\ subReq[r].body.userAddress = subReq[r].userAddress
              /\ subReq[r].body.topicId = subReq[r].topicId
              /\ \E i \in 1..Len(topicSubscriptions) :
                    topicSubscriptions[i] = subReq[r].body

----------------------------------------------------------------------------
\* Atomicity of POST /api/strategies/execute

\* The strategy rows and strategy-signal rows the request at hand created.
C29_OwnStrategies ==
    {i \in 1..Len(strategies) : strategies[i].id = exec.strategyId}
C29_OwnStrategySignals ==
    {k \in 1..Len(strategySignals) : strategySignals[k].strategyId = exec.strategyId}

\* C29: a request answered with an error has created no strategy row and no
\* strategy-signal row (and so changed no signal's status, which the handler
\* does only after both); a request answered with success has its strategy
\* executed with a tx hash and every listed signal added.
C29_AllOrNothing ==
    exec.pc = "responded" =>
        IF exec.status # HTTP_OK
        THEN C29_OwnStrategies = {} /\ C29_OwnStrategySignals = {}
        ELSE /\ \A i \in C29_OwnStrategies :
                   strategies[i].status = "executed" /\ strategies[i].txHash
             /\ C29_OwnStrategies # {}
             /\ \A k \in 1..Len(exec.signalIds) :
                   \E i \in 1..Len(sigRows) :
                       /\ sigRows[i].id = exec.signalIds[k]
                       /\ sigRows[i].status = "added"

----------------------------------------------------------------------------
\* contract StrategyRegistry

MaxRecords == 3
MaxBlocks == 2

\* The arguments of recordStrategy: one position, two positions, no market,
\* and arrays of different lengths.  The allocations are far below 2^256
\* (a sum that overflows reverts the call).
RecordArgs ==
    { [marketIds |-> <<"m1">>, allocations |-> <<5>>, edgeBps |-> <<300>>],
      [marketIds |-> <<"m1", "m2">>, allocations |-> <<5, 7>>, edgeBps |-> <<300, 450>>],
      [marketIds |-> <<>>, allocations |-> <<>>, edgeBps |-> <<>>],
      [marketIds |-> <<"m1", "m2">>, allocations |-> <<5>>, edgeBps |-> <<300>>],
      [marketIds |-> <<"m1">>, allocations |-> <<5>>, edgeBps |-> <<300, 450>>] }

\* require(marketIds.length > 0); require(lengths are equal)
recordReverts(args) ==
    \/ Len(args.marketIds) = 0
    \/ Len(args.marketIds) # Len(args.allocations)
    \/ Len(args.allocations) # Len(args.edgeBps)

\* The loop over marketIds: strategy.positions
positionsOf(args) ==
    [i \in 1..Len(args.marketIds) |->
        [marketId |-> args.marketIds[i], allocation |-> args.allocations[i],
         edgeBps |-> args.edgeBps[i]]]

\* The loop over marketIds: total += allocations[i]
RECURSIVE totalUpTo(_, _)
totalUpTo(allocations, n) ==
    IF n = 0 THEN 0 ELSE totalUpTo(allocations, n - 1) + allocations[n]

\* getUserStrategyIds(user): for each entry of userStrategies[user] the
\* first id j < strategyCount whose strategy has the user, the timestamp and
\* the topicId of the entry (0 if there is none)
getUserStrategyIds(user) ==
    LET userStrats == userStrategies[user]
        matches(i) == {j \in 0..(strategyCount - 1) :
                          /\ registryStrategies[j + 1].user = user
                          /\ registryStrategies[j + 1].timestamp = userStrats[i].timestamp
                          /\ registryStrategies[j + 1].topicId = userStrats[i].topicId}
    IN  [i \in 1..Len(userStrats) |->
            IF matches(i) = {} THEN 0
            ELSE CHOOSE j \in matches(i) : \A k \in matches(i) : j <= k]

RegistryInit ==
    /\ epc = "unused"
    /\ markets = <<>>
    /\ analyses = <<>>
    /\ signals = <<>>
    /\ ScanIdle
    /\ FetchIdle
    /\ LifeIdle
    /\ CacheIdle
    /\ SubIdle
    /\ RegistryIdle

RegistryFrame == UNCHANGED <<edgeVars, scanVars, fetchVars, lifeVars, cacheVars, subVars>>

\* A transaction calls recordStrategy(topicId, marketIds, allocations, edgeBps).
RecordStrategy(sender, t, args) ==
    /\ strategyCount < MaxRecords
    /\ IF recordReverts(args)
       THEN /\ lastCall' = [reverted |-> TRUE, returned |-> 0]
            /\ UNCHANGED <<strategyCount, registryStrategies, userStrategies>>
       ELSE LET strategyId == strategyCount
                strategy == [user |-> sender, topicId |-> t,
                             totalAllocation |->
                                 totalUpTo(args.allocations, Len(args.marketIds)),
                             timestamp |-> blockTimestamp,
                             positions |-> positionsOf(args)]
            IN  /\ strategyCount' = strategyCount + 1
                /\ registryStrategies' = Append(registryStrategies, strategy)
                /\ userStrategies' =
                      [userStrategies EXCEPT ![sender] = Append(@, strategy)]
                /\ lastCall' = [reverted |-> FALSE, returned |-> strategyId]
    /\ UNCHANGED blockTimestamp
    /\ RegistryFrame

\* The next block, with a later timestamp.
NextBlock ==
    /\ blockTimestamp < MaxBlocks
    /\ blockTimestamp' = blockTimestamp + 1
    /\ UNCHANGED <<strategyCount, registryStrategies, userStrategies, lastCall>>
    /\ RegistryFrame

RegistryNext ==
    \/ \E sender \in Users, t \in Topics, args \in RecordArgs :
          RecordStrategy(sender, t, args)
    \/ NextBlock

SpecRegistry == RegistryInit /\ [][RegistryNext]_vars

RECURSIVE C30_Sum(_, _)
C30_Sum(positions, n) ==
    IF n = 0 THEN 0 ELSE C30_Sum(positions, n - 1) + positions[n].allocation

\* The ids of the strategies this user recorded.
C30_IdsOf(user) ==
    {j \in 0..(Len(registryStrategies) - 1) : registryStrategies[j + 1].user = user}

C30_Consistent ==
    /\ Len(registryStrategies) = strategyCount
    /\ \A j \in 1..Len(registryStrategies) :
          registryStrategies[j].totalAllocation =
              C30_Sum(registryStrategies[j].positions,
                      Len(registryStrategies[j].positions))
    /\ \A u \in Users :
          LET ids == getUserStrategyIds(u)
          IN  /\ {ids[i] : i \in 1..Len(ids)} = C30_IdsOf(u)
              /\ \A a, b \in 1..Len(ids) : ids[a] = ids[b] => a = b

\* C30: after every call the ids are 0..strategyCount-1, each strategy's
\* totalAllocation is the sum of its positions' allocations, and
\* getUserStrategyIds(user) is the ids of the user's strategies, each once;
\* a successful call returns the next id, and a reverted call changes nothing.
C30_RegistryContract ==
    [][ /\ C30_Consistent'
        /\ lastCall'.reverted =>
              UNCHANGED <<strategyCount, registryStrategies, userStrategies>>
        /\ strategyCount' # strategyCount =>
              /\ strategyCount' = strategyCount + 1
              /\ lastCall'.returned = strategyCount
              /\ SubSeq(registryStrategies', 1, strategyCount) = registryStrategies
      ]_vars

====
